---- MODULE Spec2Model ----
(***************************************************************************)
(* Model of the image route handlers of geminichatbotv6:                   *)
(*   POST /api/generate-image    (app/generate-image/route.ts)             *)
(*   POST /api/edit-multi-image  (app/edit-multi-image/route.ts) with the  *)
(*        WaveSpeedMultiImageClient poll loop (lib/wavespeed-multi-client) *)
(*   POST /api/edit-image        (app/edit-image/route.ts) with the Flux   *)
(*        URL recovery chain and the provider error classification.        *)
(* A handler is modelled from the arrival of the request to its response;  *)
(* every await on an external party (provider, HEAD check, database) is a  *)
(* step whose reply is chosen nondeterministically.                        *)
(***************************************************************************)
EXTENDS Integers, Sequences, FiniteSets, TLC

VARIABLES
  env,        \* process.env: which API keys are configured
  route,      \* the handler that is running ("idle" before a request)
  pc,         \* position of the handler (the await it is suspended at)
  body,       \* the parsed request body
  calls,      \* external requests issued by the handler, in order
  response,   \* the NextResponse.json the handler returned
  validImageUrl, \* edit-image: local validImageUrl
  recoveryRound, \* edit-image: 1 in the try block, 2 in its catch block
  steps,      \* edit-image: recovery steps taken and how each ended
  thrown,     \* edit-image: the error caught by the provider catch block
  attempts,   \* generateMultiImageEdit: local attempts
  terminal,   \* generateMultiImageEdit: first terminal poll reply seen
  polledAfterTerminal, \* a poll was issued after that terminal reply
  result,     \* generateMultiImageEdit: the returned response object
  requests,   \* concurrent requests: the locals of each running handler
  frames,     \* concurrent requests: the locals of each client call
  alone,      \* each concurrent request run alone on the same replies
  interleaved, \* a request took a step while another one was in flight
  searchIntent, \* perplexity-search: the intent returned by the detector
  downstream, \* unified video route: the reply of the downstream endpoint
  image,      \* expiry heuristics: the image (URL and timestamp) looked at
  now,        \* expiry heuristics: the clock, in milliseconds
  verdicts,   \* expiry heuristics: what each heuristic said of the image
  progress,   \* progress store: the record of each imageId
  time,       \* progress store: the clock, in seconds
  completedIds, \* progress store: ids completed by completeImageGeneration
  movedBack,  \* progress store: ids whose stage was set to an earlier one
  localStorage, \* gallery: the keys 'generatedImages' and 'imageCache'
  saveCall,   \* gallery: the call of saveGeneratedImages and what it did
  sizeRequest, \* image size: a request and the size given to the OpenAI client
  value,      \* PromptEnhancer: the prompt displayed (the value prop)
  history,    \* PromptEnhancer: the history state
  historyIndex, \* PromptEnhancer: the historyIndex state, counted from 0
  isEnhancing, \* PromptEnhancer: the isEnhancing state
  hasEnhanced, \* PromptEnhancer: the hasEnhanced state
  inFlight    \* PromptEnhancer: the closure of the handleEnhance call awaited

editVars == <<validImageUrl, recoveryRound, steps, thrown>>

waveVars == <<attempts, terminal, polledAfterTerminal, result>>

concurrentVars == <<requests, frames, alone, interleaved>>

searchVars == <<searchIntent>>

videoVars == <<downstream>>

expiryVars == <<image, now, verdicts>>

progressVars == <<progress, time, completedIds, movedBack>>

galleryVars == <<localStorage, saveCall>>

sizeVars == <<sizeRequest>>

enhancerVars ==
  <<value, history, historyIndex, isEnhancing, hasEnhanced, inFlight>>

componentVars ==
  <<concurrentVars, searchVars, videoVars, expiryVars, progressVars,
    galleryVars, sizeVars, enhancerVars>>

\* the variables of the other components, for each component
notConcurrent ==
  <<enhancerVars, sizeVars, galleryVars, searchVars, videoVars, expiryVars, progressVars>>

notSearch ==
  <<enhancerVars, sizeVars, galleryVars, concurrentVars, videoVars, expiryVars, progressVars>>

notVideo ==
  <<enhancerVars, sizeVars, galleryVars, concurrentVars, searchVars, expiryVars, progressVars>>

notExpiry ==
  <<enhancerVars, sizeVars, galleryVars, concurrentVars, searchVars, videoVars, progressVars>>

notProgress ==
  <<enhancerVars, concurrentVars, searchVars, videoVars, expiryVars, galleryVars, sizeVars>>

notGallery ==
  <<enhancerVars, concurrentVars, searchVars, videoVars, expiryVars, progressVars, sizeVars>>

notSize ==
  <<enhancerVars, concurrentVars, searchVars, videoVars, expiryVars,
    progressVars, galleryVars>>

notEnhancer ==
  <<concurrentVars, searchVars, videoVars, expiryVars, progressVars,
    galleryVars, sizeVars>>

handlerVars == <<route, pc, body, calls, response, editVars, waveVars>>

vars == <<env, handlerVars, componentVars>>

-----------------------------------------------------------------------------
(* Values shared by the handlers *)

None == "none"

\* Abstract JavaScript values of a request field that is expected to be a
\* string: undefined, '', a whitespace-only string, a truthy number, a text.
PromptKinds == {"undefined", "empty", "blank", "number", "text"}

\* !value of JavaScript for the kinds above
Falsy(v) == v \in {"undefined", "empty"}

Env == [openai : BOOLEAN, replicate : BOOLEAN, wavespeed : BOOLEAN]

NoResponse == [status |-> 0, success |-> FALSE, error |-> None,
               errorType |-> None, images |-> <<>>, model |-> None,
               provider |-> None]

\* NextResponse.json({ error, ... }, { status })
ErrorResponse(status, error) ==
  [NoResponse EXCEPT !.status = status, !.error = error]

\* NextResponse.json({ success: true, images: [{ ..., index: 0 }],
\*                     metadata: { model, provider, ... } })
SuccessResponse(model, provider) ==
  [NoResponse EXCEPT !.status = 200, !.success = TRUE,
                     !.images = <<[index |-> 0]>>,
                     !.model = model, !.provider = provider]

NoBody == [model |-> None, prompt |-> None, imageUrl |-> None,
           imageId |-> FALSE, imageContext |-> FALSE,
           imagesType |-> None, images |-> <<>>]

NoError == [message |-> {}, code |-> None, type |-> None]

NoResult == [kind |-> None, success |-> FALSE, imageUrl |-> None,
             error |-> None, model |-> None, provider |-> None]

ModelNames == {"undefined", "gpt-image-1", "flux-kontext-pro",
               "flux-kontext-max", "flux-dev-ultra-fast", "dall-e-3"}

\* destructuring default: model = "flux-kontext-pro"
DefaultModel(m) == IF m = "undefined" THEN "flux-kontext-pro" ELSE m

-----------------------------------------------------------------------------
(* POST /api/generate-image *)

GenerateBodies ==
  {[NoBody EXCEPT !.model = m, !.prompt = p, !.imageContext = c] :
     m \in ModelNames, p \in PromptKinds, c \in BOOLEAN}

GenerateReplicateModels ==
  {"flux-kontext-pro", "flux-kontext-max", "flux-dev-ultra-fast"}

GenerateProviderMutant(model) ==
  IF model = "gpt-image-1" THEN "openai" ELSE "replicate"

\* the if chain on the model string: which provider serves the model
GenerateProvider(model) ==
  IF model = "gpt-image-1" THEN "openai"
  ELSE IF model \in GenerateReplicateModels THEN "replicate"
  ELSE None

GenerateKeyConfiguredMutant(provider) == TRUE

\* !process.env.OPENAI_API_KEY / !process.env.REPLICATE_API_KEY
GenerateKeyConfigured(provider) ==
  IF provider = "openai" THEN env.openai ELSE env.replicate

GenerateReceive ==
  /\ route = "idle"
  /\ route' = "generate-image"
  /\ pc' = "parsed"
  /\ \E b \in GenerateBodies : body' = b
  /\ UNCHANGED componentVars
  /\ UNCHANGED <<env, calls, response, editVars, waveVars>>

\* the synchronous part of the handler, up to the provider call
GenerateDispatch ==
  /\ route = "generate-image" /\ pc = "parsed"
  /\ LET model == DefaultModel(body.model)
         provider == GenerateProvider(model)
     IN IF Falsy(body.prompt)
        THEN /\ response' = ErrorResponse(400, "Prompt is required")
             /\ pc' = "done"
             /\ calls' = calls
        ELSE IF provider = None
        THEN /\ response' = ErrorResponse(400, "Unsupported model: " \o model)
             /\ pc' = "done"
             /\ calls' = calls
        ELSE IF ~GenerateKeyConfigured(provider)
        THEN /\ response' =
                  ErrorResponse(500, IF provider = "openai"
                                     THEN "OpenAI API key not configured"
                                     ELSE "Replicate API key not configured")
             /\ pc' = "done"
             /\ calls' = calls
        ELSE /\ calls' = Append(calls,
                  IF provider = "replicate" THEN "replicate.generateImage"
                  ELSE IF body.imageContext
                       THEN "openai.generateImageWithContext"
                       ELSE "openai.generateImageWithGPTImage1")
             /\ pc' = "await_" \o provider
             /\ response' = response
  /\ UNCHANGED componentVars
  /\ UNCHANGED <<env, route, body, editVars, waveVars>>

\* await generateImageWithContext / generateImageWithGPTImage1
GenerateOpenAIReply ==
  /\ route = "generate-image" /\ pc = "await_openai"
  /\ \E ok \in BOOLEAN :
       response' = IF ok THEN SuccessResponse("gpt-image-1", "openai")
                   ELSE ErrorResponse(500,
                          "Failed to generate image with GPT-Image-1")
  /\ pc' = "done"
  /\ UNCHANGED componentVars
  /\ UNCHANGED <<env, route, body, calls, editVars, waveVars>>

\* await client.generateImage(model, prompt, ...)
GenerateReplicateReply ==
  /\ route = "generate-image" /\ pc = "await_replicate"
  /\ \E ok \in BOOLEAN :
       response' = IF ok
                   THEN SuccessResponse(DefaultModel(body.model), "replicate")
                   ELSE ErrorResponse(500, "Failed to generate image with "
                                           \o DefaultModel(body.model))
  /\ pc' = "done"
  /\ UNCHANGED componentVars
  /\ UNCHANGED <<env, route, body, calls, editVars, waveVars>>

-----------------------------------------------------------------------------
(* WaveSpeedMultiImageClient (lib/wavespeed-multi-client.ts) *)

\* Abstract values of one entry of body.images: a data: URL, an http(s)
\* URL, a string with another prefix, the empty string, a non-string (null).
ImageKinds == {"data", "http", "other", "empty", "null"}

maxAttempts == 120

maxImages == 10

minImages == 2

\* image.startsWith(...), which throws a TypeError on a non-string
StartsWithThrows(images) == \E i \in DOMAIN images : images[i] = "null"

\* errors pushed by validateImages, as the sequence of their messages
RECURSIVE ImageErrors(_, _)
ImageErrors(images, i) ==
  IF i > Len(images) THEN <<>>
  ELSE (IF images[i] \in {"empty", "null"}
        THEN <<"Image is invalid">>
        ELSE IF images[i] \notin {"data", "http"}
        THEN <<"Image must be a data URL or HTTP URL">>
        ELSE <<>>) \o ImageErrors(images, i + 1)

\* validateImages(images).errors; valid iff the sequence is empty
validateImages(images) ==
  (IF Len(images) = 0 THEN <<"At least one image is required">> ELSE <<>>)
  \o (IF Len(images) > maxImages THEN <<"Maximum 10 images allowed">>
      ELSE <<>>)
  \o ImageErrors(images, 1)

PollLoopConditionMutant(a) == a <= maxAttempts

\* while (attempts < maxAttempts)
PollLoopCondition(a) == a < maxAttempts

\* the outer catch of generateMultiImageEdit: return { success: false, ... }
ClientFailure(message) ==
  [NoResult EXCEPT !.kind = "returned", !.error = message,
                   !.model = "wavespeed-ai/flux-kontext-max/multi",
                   !.provider = "wavespeed"]

\* return { success: true, imageUrl: outputs[0], taskId, metadata }
ClientSuccess ==
  [NoResult EXCEPT !.kind = "returned", !.success = TRUE,
                   !.imageUrl = "outputs[0]",
                   !.model = "wavespeed-ai/flux-kontext-max/multi",
                   !.provider = "wavespeed"]

\* replies of the submit request
SubmitReplies == {"network_error", "not_ok", "bad_json", "no_task_id", "task"}

\* replies of one status poll: the fetch rejects, a non-OK status, a body
\* that is not JSON, status 'processing', status 'completed' without
\* outputs, status 'completed' with outputs, status 'failed'
PollReplies == {"network_error", "not_ok", "bad_json", "processing",
                "completed_empty", "completed", "failed"}

\* what one iteration of the loop body does with the poll reply:
\* "return" (the return inside the loop), "throw" (an error reaches the
\* inner catch) or "next" (fall through to the loop condition)
PollBody(reply) ==
  IF reply = "completed" THEN "return"
  ELSE IF reply \in {"network_error", "bad_json", "failed"} THEN "throw"
  ELSE "next"

\* the message of the error thrown in the loop body
PollErrorMessage(reply) ==
  IF reply = "failed" THEN "Task failed: Unknown error"
  ELSE IF reply = "bad_json" THEN "Unexpected token in JSON"
  ELSE "fetch failed"

\* catch (pollError) { if (attempts >= maxAttempts) throw pollError }
InnerCatchRethrows(a) == a >= maxAttempts

-----------------------------------------------------------------------------
(* POST /api/edit-multi-image *)

MaxInputImages == 11

\* image lists of every length up to MaxInputImages, all http URLs except
\* possibly the first or the last entry
ImageLists ==
  {[i \in 1..n |-> IF i = k THEN kind ELSE "http"] :
     n \in 0..MaxInputImages, k \in {1, MaxInputImages + 1},
     kind \in ImageKinds}
  \cup
  {[i \in 1..n |-> IF i = n THEN kind ELSE "http"] :
     n \in 0..MaxInputImages, kind \in ImageKinds}

MultiBodies ==
  {[NoBody EXCEPT !.prompt = p, !.imagesType = "array", !.images = l] :
     p \in PromptKinds, l \in ImageLists}
  \cup
  {[NoBody EXCEPT !.prompt = p, !.imagesType = t] :
     p \in PromptKinds, t \in {"undefined", "string"}}

\* !prompt || typeof prompt !== 'string' || !prompt.trim()
PromptRejected(p) == p \in {"undefined", "empty", "number", "blank"}

\* the metadata object literal followed by ...result.metadata: the spread
\* fields replace the fields of the same name written before them
SpreadMetadata(model, provider, extra) ==
  [model |-> IF extra.model # None THEN extra.model ELSE model,
   provider |-> IF extra.provider # None THEN extra.provider ELSE provider]

\* the handler after await waveSpeedClient.generateMultiImageEdit(...)
MultiRespond(r) ==
  IF ~r.success
  THEN ErrorResponse(500, "Multi-image generation failed")
  ELSE LET m == SpreadMetadata("flux-kontext-max-multi", "wavespeed", r)
       IN SuccessResponse(m.model, m.provider)

MultiReceive ==
  /\ route = "idle"
  /\ route' = "edit-multi-image"
  /\ pc' = "parsed"
  /\ \E b \in MultiBodies : body' = b
  /\ UNCHANGED componentVars
  /\ UNCHANGED <<env, calls, response, editVars, waveVars>>

\* the synchronous part of the handler: validation, key check, debug log,
\* validateImages, and generateMultiImageEdit up to its submit request
MultiValidate ==
  /\ route = "edit-multi-image" /\ pc = "parsed"
  /\ LET images == body.images
         reject(status, error) ==
           /\ response' = ErrorResponse(status, error)
           /\ pc' = "done"
           /\ calls' = calls
     IN IF body.imagesType # "array" \/ Len(images) = 0
        THEN reject(400, "Images array is required and must not be empty")
        ELSE IF PromptRejected(body.prompt)
        THEN reject(400, "Prompt is required")
        ELSE IF Len(images) < minImages
        THEN reject(400,
               "At least 2 images are required for multi-image editing")
        ELSE IF Len(images) > maxImages
        THEN reject(400, "Maximum 10 images allowed for multi-image editing")
        ELSE IF ~env.wavespeed
        THEN reject(500, "WaveSpeed API key not configured")
        ELSE IF StartsWithThrows(images)
        THEN reject(500, "Internal server error")
        ELSE IF validateImages(images) # <<>>
        THEN reject(400, "Invalid images provided")
        ELSE /\ calls' = Append(calls, "wavespeed.submit")
             /\ pc' = "await_submit"
             /\ response' = response
  /\ UNCHANGED componentVars
  /\ UNCHANGED <<env, route, body, editVars, waveVars>>

\* the reply of the submit request; a task id starts the poll loop, whose
\* first iteration waits one second, counts the attempt and issues a poll
generateMultiImageEdit_Submit ==
  /\ route = "edit-multi-image" /\ pc = "await_submit"
  /\ \E reply \in SubmitReplies :
       IF reply = "task"
       THEN IF PollLoopCondition(0)
            THEN /\ attempts' = 1
                 /\ calls' = Append(calls, "wavespeed.poll")
                 /\ pc' = "await_poll"
                 /\ UNCHANGED <<result, response>>
            ELSE /\ result' = ClientFailure("Task timed out after 2 minutes")
                 /\ response' = MultiRespond(result')
                 /\ pc' = "done"
                 /\ UNCHANGED <<attempts, calls>>
       ELSE /\ result' = ClientFailure(
                  IF reply = "network_error" THEN "fetch failed"
                  ELSE IF reply = "not_ok" THEN "Failed to submit task"
                  ELSE IF reply = "bad_json" THEN "Unexpected token in JSON"
                  ELSE "No task ID received from WaveSpeed API")
            /\ response' = MultiRespond(result')
            /\ pc' = "done"
            /\ UNCHANGED <<attempts, calls>>
  /\ UNCHANGED componentVars
  /\ UNCHANGED <<env, route, body, editVars, terminal, polledAfterTerminal>>

\* the reply of one status poll, the rest of the loop iteration, and either
\* the next iteration up to its poll request or the return of the client
\* followed by the rest of the route handler
generateMultiImageEdit_Poll ==
  /\ route = "edit-multi-image" /\ pc = "await_poll"
  /\ \E reply \in PollReplies :
       LET outcome == PollBody(reply)
           seen == IF terminal = None /\ reply \in {"completed", "failed"}
                   THEN reply ELSE terminal
           return(r) ==
             /\ result' = r
             /\ response' = MultiRespond(r)
             /\ pc' = "done"
             /\ UNCHANGED <<attempts, calls, polledAfterTerminal>>
       IN /\ terminal' = seen
          /\ IF outcome = "return"
             THEN return(ClientSuccess)
             ELSE IF outcome = "throw" /\ InnerCatchRethrows(attempts)
             THEN return(ClientFailure(PollErrorMessage(reply)))
             ELSE IF PollLoopCondition(attempts)
             THEN /\ attempts' = attempts + 1
                  /\ calls' = Append(calls, "wavespeed.poll")
                  /\ polledAfterTerminal' =
                       (polledAfterTerminal \/ seen # None)
                  /\ pc' = "await_poll"
                  /\ UNCHANGED <<result, response>>
             ELSE return(ClientFailure("Task timed out after 2 minutes"))
  /\ UNCHANGED componentVars
  /\ UNCHANGED <<env, route, body, editVars>>

-----------------------------------------------------------------------------
(* Image URL helpers (lib/image-url-validator.ts) *)

\* Abstract values of body.imageUrl: undefined, '', a truthy non-string,
\* a data: URL, a Vercel Blob URL, a replicate.delivery URL, another http
\* URL, a Gemini file URI
UrlKinds == {"undefined", "empty", "number", "data", "blob", "replicate",
             "http", "gemini"}

\* url.includes('replicate.delivery')
isReplicateDeliveryUrl(url) == url = "replicate"

\* ensureImageUrlAccessible(url): validateImageUrl, then
\* downloadImageAsDataUrl, then the image-proxy request, then the throw.
\* The result is the URL itself, a data URL, or the thrown error.
ensureImageUrlAccessible(headOk, downloadOk, proxyOk) ==
  IF headOk THEN "accessible"
  ELSE IF downloadOk THEN "dataUrl"
  ELSE IF proxyOk THEN "dataUrl"
  ELSE "throw"

-----------------------------------------------------------------------------
(* POST /api/edit-image *)

EditBodies ==
  {[NoBody EXCEPT !.model = m, !.prompt = p, !.imageUrl = u, !.imageId = i] :
     m \in ModelNames, p \in PromptKinds, u \in UrlKinds, i \in BOOLEAN}

EditFluxModels == {"flux-kontext-max", "flux-kontext-pro"}

\* substrings of error.message that the catch block looks for
Markers == {"invalid_request_error", "rate_limit_exceeded",
            "404 Client Error", "replicate.delivery", "safety system",
            "model_not_found"}

MaxMarkers == 2

\* errors a provider call can throw: a message with some of the markers,
\* a code and a type
Errors ==
  {[message |-> m, code |-> c, type |-> t] :
     m \in {ms \in SUBSET Markers : Cardinality(ms) <= MaxMarkers},
     c \in {None, "moderation_blocked"},
     t \in {None, "image_generation_user_error"}}

\* values of result.model returned by smartEditWithGPTImage1: absent, the
\* requested model, or the name of a fallback model
OpenAIResultModels == {"undefined", "gpt-image-1", "dall-e-2-fallback"}

ClassifyErrorMutant(e) ==
  IF "rate_limit_exceeded" \in e.message
  THEN ErrorResponse(429, "Rate limit exceeded")
  ELSE IF "invalid_request_error" \in e.message
  THEN ErrorResponse(400, "Invalid request")
  ELSE IF "404 Client Error" \in e.message
          /\ "replicate.delivery" \in e.message
  THEN ErrorResponse(400, "Image URL expired")
  ELSE IF \/ "safety system" \in e.message
          \/ e.code = "moderation_blocked"
          \/ e.type = "image_generation_user_error"
  THEN ErrorResponse(400, "Content not allowed")
  ELSE IF "model_not_found" \in e.message
  THEN ErrorResponse(400, "Model not available")
  ELSE ErrorResponse(500, "Failed to edit image")

\* the catch block around the provider calls: the first matching test wins
ClassifyError(e) ==
  IF "invalid_request_error" \in e.message
  THEN ErrorResponse(400, "Invalid request")
  ELSE IF "rate_limit_exceeded" \in e.message
  THEN ErrorResponse(429, "Rate limit exceeded")
  ELSE IF "404 Client Error" \in e.message
          /\ "replicate.delivery" \in e.message
  THEN ErrorResponse(400, "Image URL expired")
  ELSE IF \/ "safety system" \in e.message
          \/ e.code = "moderation_blocked"
          \/ e.type = "image_generation_user_error"
  THEN ErrorResponse(400, "Content not allowed")
  ELSE IF "model_not_found" \in e.message
  THEN ErrorResponse(400, "Model not available")
  ELSE ErrorResponse(500, "Failed to edit image")

\* outcomes of await getImageByLocalId(imageId), which is imported from
\* lib/services/chat-persistence: a stored image with a url, nothing, or a
\* rejected promise
LookupReplies == {"hit", "miss", "throw"}

\* the 400 response of the recovery chain
UrlExpiredResponse ==
  [ErrorResponse(400, "Image URL expired or inaccessible")
     EXCEPT !.errorType = "url_expired"]

\* !imageUrl.startsWith('data:') &&
\* !imageUrl.includes('blob.vercel-storage.com')
NeedsHeadCheck(url) == url \notin {"data", "blob"}

LookupFirstMutant(hasId, url) == FALSE

\* imageId && isReplicateDeliveryUrl(imageUrl)
LookupFirst(hasId, url) == hasId /\ isReplicateDeliveryUrl(url)

\* the outcome of the pending recovery step is recorded
StepDone(outcome) == [steps EXCEPT ![Len(steps)].outcome = outcome]

\* a recovery step is started: its request is issued and awaited
EditStartStep(done, step, round) ==
  /\ steps' = Append(done, [step |-> step, outcome |-> "pending"])
  /\ calls' = Append(calls, step)
  /\ recoveryRound' = round
  /\ pc' = "await_" \o step
  /\ UNCHANGED <<validImageUrl, response, thrown>>

\* the database lookup if the request has an imageId and a Replicate URL,
\* else the download; round 1 is the try block, round 2 its catch block
EditRecover(done, round) ==
  IF LookupFirst(body.imageId, body.imageUrl)
  THEN EditStartStep(done, "getImageByLocalId", round)
  ELSE EditStartStep(done, "ensureImageUrlAccessible", round)

\* new ReplicateImageClient(...); replicateClient.editImage(model, editInput)
EditCallReplicate(done, url) ==
  /\ steps' = done
  /\ validImageUrl' = url
  /\ calls' = Append(calls, "replicate.editImage")
  /\ pc' = "await_replicate"
  /\ UNCHANGED <<recoveryRound, response, thrown>>

\* the handler returns a response
EditReturn(done, r, e) ==
  /\ steps' = done
  /\ response' = r
  /\ thrown' = e
  /\ pc' = "done"
  /\ UNCHANGED <<validImageUrl, recoveryRound, calls>>

EditReceive ==
  /\ route = "idle"
  /\ route' = "edit-image"
  /\ pc' = "parsed"
  /\ \E b \in EditBodies : body' = b
  /\ UNCHANGED componentVars
  /\ UNCHANGED <<env, calls, response, editVars, waveVars>>

\* the synchronous part of the handler: key checks, required fields, the
\* logging of prompt and imageUrl, and the branch on the model up to its
\* first request
EditValidate ==
  /\ route = "edit-image" /\ pc = "parsed"
  /\ LET model == DefaultModel(body.model)
         url == body.imageUrl
         reject(status, error) ==
           EditReturn(steps, ErrorResponse(status, error), thrown)
     IN IF model = "gpt-image-1" /\ ~env.openai
        THEN reject(500, "OpenAI API key not configured")
        ELSE IF model \in EditFluxModels /\ ~env.replicate
        THEN reject(500, "Replicate API key not configured")
        ELSE IF Falsy(url)
        THEN reject(400, "Image URL is required")
        ELSE IF Falsy(body.prompt)
        THEN reject(400, "Edit prompt is required")
        ELSE IF body.prompt = "number" \/ url = "number"
        THEN reject(500, "Failed to process request")
        ELSE IF model = "gpt-image-1"
        THEN IF url = "gemini"
             THEN reject(400,
                    "Image editing not available for Gemini file URIs")
             ELSE /\ calls' = Append(calls, "openai.smartEditWithGPTImage1")
                  /\ pc' = "await_openai"
                  /\ UNCHANGED <<response, editVars>>
        ELSE IF model \in EditFluxModels
        THEN IF ~env.replicate
             THEN reject(500, "Replicate API key not configured")
             ELSE IF NeedsHeadCheck(url)
             THEN /\ validImageUrl' = url
                  /\ steps' = <<[step |-> "HEAD", outcome |-> "pending"]>>
                  /\ calls' = Append(calls, "HEAD")
                  /\ recoveryRound' = 1
                  /\ pc' = "await_HEAD"
                  /\ UNCHANGED <<response, thrown>>
             ELSE EditCallReplicate(steps, url)
        ELSE reject(400, "Invalid model specified")
  /\ UNCHANGED componentVars
  /\ UNCHANGED <<env, route, body, waveVars>>

\* await fetch(imageUrl, { method: 'HEAD', signal: AbortSignal.timeout })
EditHeadReply ==
  /\ route = "edit-image" /\ pc = "await_HEAD"
  /\ \E o \in {"ok", "not_ok", "throw"} :
       IF o = "ok" THEN EditCallReplicate(StepDone(o), validImageUrl)
       ELSE IF o = "not_ok" THEN EditRecover(StepDone(o), 1)
       ELSE EditRecover(StepDone(o), 2)
  /\ UNCHANGED componentVars
  /\ UNCHANGED <<env, route, body, waveVars>>

\* await getImageByLocalId(imageId), in the try block or in its catch block
EditLookupReply ==
  /\ route = "edit-image" /\ pc = "await_getImageByLocalId"
  /\ \E o \in LookupReplies :
       IF o = "hit" THEN EditCallReplicate(StepDone(o), "stored")
       ELSE IF o = "miss"
       THEN EditStartStep(StepDone(o), "ensureImageUrlAccessible",
                          recoveryRound)
       ELSE IF recoveryRound = 1 THEN EditRecover(StepDone(o), 2)
       ELSE EditReturn(StepDone(o), ClassifyError(NoError), NoError)
  /\ UNCHANGED componentVars
  /\ UNCHANGED <<env, route, body, waveVars>>

\* await ensureImageUrlAccessible(imageUrl), in the try block or in its
\* catch block
EditEnsureReply ==
  /\ route = "edit-image" /\ pc = "await_ensureImageUrlAccessible"
  /\ \E headOk \in BOOLEAN, downloadOk \in BOOLEAN, proxyOk \in BOOLEAN :
       LET o == ensureImageUrlAccessible(headOk, downloadOk, proxyOk)
       IN IF o = "accessible"
          THEN EditCallReplicate(StepDone(o), body.imageUrl)
          ELSE IF o = "dataUrl" THEN EditCallReplicate(StepDone(o), "data")
          ELSE IF recoveryRound = 1 THEN EditRecover(StepDone(o), 2)
          ELSE EditReturn(StepDone(o), UrlExpiredResponse, thrown)
  /\ UNCHANGED componentVars
  /\ UNCHANGED <<env, route, body, waveVars>>

\* await smartEditWithGPTImage1(...): the success response or the catch
EditOpenAIReply ==
  /\ route = "edit-image" /\ pc = "await_openai"
  /\ \/ \E m \in OpenAIResultModels :
          EditReturn(steps,
                     SuccessResponse(IF m = "undefined" THEN "gpt-image-1"
                                     ELSE m, "openai"),
                     thrown)
     \/ \E e \in Errors : EditReturn(steps, ClassifyError(e), e)
  /\ UNCHANGED componentVars
  /\ UNCHANGED <<env, route, body, waveVars>>

\* await replicateClient.editImage(...): the success response or the catch
EditReplicateReply ==
  /\ route = "edit-image" /\ pc = "await_replicate"
  /\ \/ EditReturn(steps,
                   SuccessResponse(DefaultModel(body.model), "replicate"),
                   thrown)
     \/ \E e \in Errors : EditReturn(steps, ClassifyError(e), e)
  /\ UNCHANGED componentVars
  /\ UNCHANGED <<env, route, body, waveVars>>

-----------------------------------------------------------------------------

-----------------------------------------------------------------------------
(* SearchIntentDetector (lib/search-intent-detector.ts).  A message is a   *)
(* string; includes, toLowerCase, split and the regular expressions are    *)
(* computed on its characters.                                             *)

Char(s, i) == SubSeq(s, i, i)

\* s.includes(k)
Includes(s, k) ==
  \E i \in 1..(Len(s) - Len(k) + 1) : SubSeq(s, i, i + Len(k) - 1) = k

UpperCase == "ABCDEFGHIJKLMNOPQRSTUVWXYZ"

LowerCase == "abcdefghijklmnopqrstuvwxyz"

RECURSIVE toLowerCase(_)
\* s.toLowerCase()
toLowerCase(s) ==
  IF s = "" THEN ""
  ELSE LET c == Head(s)
           up == {i \in 1..Len(UpperCase) : Char(UpperCase, i) = c}
       IN (IF up = {} THEN c ELSE Char(LowerCase, CHOOSE i \in up : TRUE))
          \o toLowerCase(Tail(s))

currentInfoKeywords ==
  {"latest", "current", "today", "now", "recent", "news",
   "update", "2025", "2024", "this year", "this month",
   "right now", "at the moment", "currently", "breaking",
   "live", "ongoing", "happening"}

factualKeywords ==
  {"what is", "who is", "when did", "where is", "how does",
   "price of", "cost of", "statistics", "data", "facts about"}

researchKeywords ==
  {"compare", "versus", "vs", "difference between", "best",
   "top", "review", "analysis", "research", "study"}

actionExclusions ==
  {"generate", "create", "make", "produce", "build", "design",
   "draw", "paint", "compose", "write", "edit", "modify",
   "dialogue", "conversation", "multi-speaker", "voice", "audio",
   "tts", "text to speech", "narrate", "speak", "say",
   "image", "picture", "photo", "video", "animation",
   "download", "save", "extract"}

\* keywords.some(keyword => lowerMessage.includes(keyword))
SomeIncluded(keywords, lowerMessage) ==
  \E k \in keywords : Includes(lowerMessage, k)

(* Regular expressions.  A partial match is the set of positions at which  *)
(* the rest of the pattern may continue; position Len(s) + 1 is the end.   *)

WordChars == "abcdefghijklmnopqrstuvwxyz0123456789_"

Digits == "0123456789"

IsIn(c, chars) == c # "" /\ Includes(chars, c)

\* \w at position i of s (false outside the string)
IsWordAt(s, i) == i >= 1 /\ i <= Len(s) /\ IsIn(Char(s, i), WordChars)

\* \b before position i
WordBoundary(s, i) == IsWordAt(s, i - 1) # IsWordAt(s, i)

Boundaries(s) == {i \in 1..(Len(s) + 1) : WordBoundary(s, i)}

\* (w1|w2|...) continued from the positions P
After(s, P, words) ==
  UNION {{i + Len(w) : w \in {x \in words :
                                /\ i + Len(x) - 1 <= Len(s)
                                /\ SubSeq(s, i, i + Len(x) - 1) = x}} :
           i \in P}

\* a run of at least min characters of chars, continued from P
Run(s, P, chars, min) ==
  UNION {{j \in (i + min)..(Len(s) + 1) :
            \A k \in i..(j - 1) : IsIn(Char(s, k), chars)} : i \in P}

\* .{0,max} continued from P
AnyUpTo(s, P, max) ==
  UNION {{j \in i..(i + max) : j <= Len(s) + 1} : i \in P}

\* /\b(create|generate|make|produce)\s+(a|an|some)?\s*
\*    (dialogue|conversation|audio|voice|image|video)/
GenerativePattern1(s) ==
  LET verb == After(s, Boundaries(s),
                    {"create", "generate", "make", "produce"})
      gap == Run(s, verb, " ", 1)
      article == gap \cup After(s, gap, {"a", "an", "some"})
  IN After(s, Run(s, article, " ", 0),
           {"dialogue", "conversation", "audio", "voice", "image", "video"})
     # {}

\* /\b(dia\s*tts|wavespeed|multi.?speaker|voice\s*acting)\b/
GenerativePattern2(s) ==
  LET b == Boundaries(s)
      ends == After(s, Run(s, After(s, b, {"dia"}), " ", 0), {"tts"})
              \cup After(s, b, {"wavespeed"})
              \cup After(s, AnyUpTo(s, After(s, b, {"multi"}), 1),
                         {"speaker"})
              \cup After(s, Run(s, After(s, b, {"voice"}), " ", 0),
                         {"acting"})
  IN ends \cap b # {}

\* /\b(alice|bob|charlie|speaker\s*\d+).{0,20}(say|speak|voice)/
GenerativePattern3(s) ==
  LET b == Boundaries(s)
      name == After(s, b, {"alice", "bob", "charlie"})
              \cup Run(s, Run(s, After(s, b, {"speaker"}), " ", 0),
                       Digits, 1)
  IN After(s, AnyUpTo(s, name, 20), {"say", "speak", "voice"}) # {}

\* /\bcharacters?\s+(talking|speaking|conversing)\b/
GenerativePattern4(s) ==
  LET b == Boundaries(s)
      noun == After(s, b, {"character", "characters"})
  IN After(s, Run(s, noun, " ", 1), {"talking", "speaking", "conversing"})
     \cap b # {}

\* /\b(draw|paint|design|illustrate)\s+(a|an|some)?\s*(picture|image|scene)/
GenerativePattern5(s) ==
  LET verb == After(s, Boundaries(s),
                    {"draw", "paint", "design", "illustrate"})
      gap == Run(s, verb, " ", 1)
      article == gap \cup After(s, gap, {"a", "an", "some"})
  IN After(s, Run(s, article, " ", 0), {"picture", "image", "scene"}) # {}

\* generativePatterns.some(pattern => pattern.test(userMessage)); the
\* patterns carry the i flag
generativePatterns(userMessage) ==
  LET s == toLowerCase(userMessage)
  IN \/ GenerativePattern1(s)
     \/ GenerativePattern2(s)
     \/ GenerativePattern3(s)
     \/ GenerativePattern4(s)
     \/ GenerativePattern5(s)

\* the words of message.split(/\s+/), as pairs of first and last position
\* of every maximal run without a space
Words(s) ==
  {<<i, j>> \in (1..Len(s)) \X (1..Len(s)) :
     /\ i <= j
     /\ \A k \in i..j : Char(s, k) # " "
     /\ (i = 1 \/ Char(s, i - 1) = " ")
     /\ (j = Len(s) \/ Char(s, j + 1) = " ")}

\* message.split(/\s+/).length: one more than the number of runs of spaces
wordCount(s) ==
  1 + Cardinality({i \in 1..Len(s) :
                     Char(s, i) = " " /\ (i = 1 \/ Char(s, i - 1) # " ")})

stopWords ==
  {"the", "a", "an", "is", "are", "was", "were", "what", "when", "where",
   "who", "how", "why"}

\* countConcepts(message): distinct lower-case words longer than three
\* characters that are no stop words
countConcepts(message) ==
  LET s == toLowerCase(message)
  IN Cardinality({SubSeq(s, w[1], w[2]) : w \in
                    {v \in Words(s) : /\ v[2] - v[1] + 1 > 3
                                      /\ SubSeq(s, v[1], v[2]) \notin stopWords}})

\* /\b(analyze|compare|evaluate|investigate|comprehensive|detailed)\b/i
hasComplexTerms(message) ==
  LET s == toLowerCase(message)
      b == Boundaries(s)
  IN After(s, b, {"analyze", "compare", "evaluate", "investigate",
                  "comprehensive", "detailed"}) \cap b # {}

assessComplexity(message, searchType) ==
  LET hasMultipleQuestions ==
        Cardinality({i \in 1..Len(message) : Char(message, i) = "?"}) > 1
      complexityScore ==
        (IF wordCount(message) > 50 THEN 2
         ELSE IF wordCount(message) > 20 THEN 1 ELSE 0)
        + (IF hasMultipleQuestions THEN 2 ELSE 0)
        + (IF hasComplexTerms(message) THEN 1 ELSE 0)
        + (IF countConcepts(message) > 2 THEN 1 ELSE 0)
  IN IF searchType \in {"research", "comparison"} THEN "complex"
     ELSE IF complexityScore >= 4 THEN "complex"
     ELSE IF complexityScore >= 2 THEN "moderate"
     ELSE "simple"

baseDurations ==
  [simple |-> [current_events |-> 2, factual |-> 3, research |-> 10,
               comparison |-> 8],
   moderate |-> [current_events |-> 5, factual |-> 8, research |-> 30,
                 comparison |-> 20],
   complex |-> [current_events |-> 10, factual |-> 15, research |-> 60,
                comparison |-> 40]]

estimateDuration(complexity, searchType) ==
  baseDurations[complexity][searchType]

\* return { needsSearch: false }
NoSearch ==
  [needsSearch |-> FALSE, searchType |-> None, timeFilter |-> None,
   complexity |-> None, requiresAsync |-> FALSE, estimatedDuration |-> 0]

actionExcludedMutant(userMessage) == FALSE

\* hasActionKeyword || hasGenerativePattern
actionExcluded(userMessage) ==
  \/ SomeIncluded(actionExclusions, toLowerCase(userMessage))
  \/ generativePatterns(userMessage)

searchTypeOfMutant(needsCurrentInfo, needsResearch) ==
  IF needsResearch THEN "research"
  ELSE IF needsCurrentInfo THEN "current_events"
  ELSE "factual"

\* let searchType = 'factual'; if (needsCurrentInfo) ... else if ...
searchTypeOf(needsCurrentInfo, needsResearch) ==
  IF needsCurrentInfo THEN "current_events"
  ELSE IF needsResearch THEN "research"
  ELSE "factual"

detectSearchIntent(userMessage) ==
  LET lowerMessage == toLowerCase(userMessage)
      needsCurrentInfo == SomeIncluded(currentInfoKeywords, lowerMessage)
      needsFactualInfo == SomeIncluded(factualKeywords, lowerMessage)
      needsResearch == SomeIncluded(researchKeywords, lowerMessage)
      timeFilter ==
        IF Includes(lowerMessage, "today") THEN "day"
        ELSE IF Includes(lowerMessage, "this week") THEN "week"
        ELSE IF Includes(lowerMessage, "this month") THEN "month"
        ELSE IF Includes(lowerMessage, "this year") THEN "year"
        ELSE None
      searchType == searchTypeOf(needsCurrentInfo, needsResearch)
      complexity == assessComplexity(userMessage, searchType)
  IN IF actionExcluded(userMessage) THEN NoSearch
     ELSE IF ~(needsCurrentInfo \/ needsFactualInfo \/ needsResearch)
     THEN NoSearch
     ELSE [needsSearch |-> TRUE, searchType |-> searchType,
           timeFilter |-> timeFilter, complexity |-> complexity,
           requiresAsync |->
             (complexity = "complex" \/ searchType = "research"),
           estimatedDuration |-> estimateDuration(complexity, searchType)]

-----------------------------------------------------------------------------
(* POST /api/perplexity-search *)

MaxWords == 2

Vocabulary ==
  {"Latest", "what", "is", "compare", "know", "create", "wavespeed",
   "characters", "talking", "weather"}

RECURSIVE Texts(_)
\* the texts of at most n words of the vocabulary, separated by one space
Texts(n) ==
  IF n = 0 THEN {""}
  ELSE LET shorter == Texts(n - 1)
       IN shorter \cup
          {IF t = "" THEN w ELSE t \o " " \o w :
             t \in shorter, w \in Vocabulary}

\* one entry of body.messages; content is a string or is missing
Messages ==
  [role : {"user", "assistant"}, contentType : {"string"},
   content : Texts(MaxWords)]
  \cup [role : {"user", "assistant"}, contentType : {"undefined"},
        content : {""}]

EarlierMessages ==
  {[role |-> "user", contentType |-> "string", content |-> "Latest news"],
   [role |-> "assistant", contentType |-> "string",
    content |-> "weather is what"]}

\* bodies of the search requests: messages missing or an array of at most
\* two messages
SearchBodies ==
  [messagesType : {"undefined"}, messages : {<<>>}, forceSearch : BOOLEAN]
  \cup [messagesType : {"array"},
        messages : {<<>>} \cup {<<m>> : m \in Messages}
                   \cup {<<m, e>> : m \in Messages, e \in EarlierMessages},
        forceSearch : BOOLEAN]

\* NextResponse.json of the search route
SearchResponse(status, error, needsSearch) ==
  [status |-> status, error |-> error, needsSearch |-> needsSearch]

\* messages.filter(m => m.role === 'user')
UserMessages(messages) == SelectSeq(messages, LAMBDA m : m.role = "user")

SearchReceive ==
  /\ route = "idle"
  /\ route' = "perplexity-search"
  /\ pc' = "parsed"
  /\ \E b \in SearchBodies : body' = b
  /\ UNCHANGED <<env, calls, response, editVars, waveVars, componentVars>>

\* the synchronous part of the handler, up to the client.search request
SearchDetect ==
  /\ route = "perplexity-search" /\ pc = "parsed"
  /\ LET users == UserMessages(body.messages)
         lastUserMessage == users[Len(users)]
         reply(status, error, needsSearch) ==
           /\ response' = SearchResponse(status, error, needsSearch)
           /\ pc' = "done"
           /\ UNCHANGED <<calls, searchIntent>>
     IN IF body.messagesType = "undefined"
           \/ (body.messagesType = "array" /\ Len(body.messages) = 0)
        THEN reply(400, "Messages are required", "undefined")
        ELSE IF Len(users) = 0
        THEN reply(400, "No user message found", "undefined")
        ELSE IF lastUserMessage.contentType # "string"
        \* userMessage.toLowerCase() throws; the catch block answers 500
        THEN reply(500, "Failed to perform search", "undefined")
        ELSE \E intent \in {detectSearchIntent(lastUserMessage.content)} :
                /\ searchIntent' = intent
                /\ IF ~intent.needsSearch /\ ~body.forceSearch
                   THEN /\ response' = SearchResponse(200, None, "false")
                        /\ pc' = "done"
                        /\ calls' = calls
                   ELSE /\ calls' = Append(calls, "perplexity.search")
                        /\ pc' = "await_perplexity"
                        /\ response' = response
  /\ UNCHANGED <<env, route, body, editVars, waveVars, notSearch>>

\* await client.search(perplexityMessages, searchOptions)
SearchReply ==
  /\ route = "perplexity-search" /\ pc = "await_perplexity"
  /\ \E ok \in BOOLEAN :
       response' = IF ok THEN SearchResponse(200, None, "true")
                   ELSE SearchResponse(500, "Failed to perform search",
                                       "undefined")
  /\ pc' = "done"
  /\ UNCHANGED <<env, route, body, calls, editVars, waveVars, componentVars>>

InitSearch == searchIntent = NoSearch

NextSearch ==
  \/ SearchReceive
  \/ SearchDetect
  \/ SearchReply

-----------------------------------------------------------------------------
(* Unified video generation endpoint (POST, workflow 'quick' or 'studio') *)

WorkflowKinds == {"undefined", "quick", "studio", "other"}

VideoBodies == [workflow : WorkflowKinds, prompt : PromptKinds]

NoDownstream == [kind |-> None, workflow |-> None, status |-> None]

\* replies of the downstream endpoint: the fetch rejects, a non-OK status,
\* an OK status whose body is not JSON, an OK status with a JSON result that
\* may carry its own workflow and status fields
DownstreamReplies ==
  [kind : {"network_error", "not_ok", "bad_json"}, workflow : {None},
   status : {None}]
  \cup [kind : {"ok"}, workflow : {None, "quick", "studio"},
        status : {None, "queued", "completed"}]

\* NextResponse.json({ error, status: 'failed', stage: 'failed' }, 500)
VideoFailure(error) ==
  [status |-> 500, error |-> error, workflow |-> None,
   bodyStatus |-> "failed", stage |-> "failed"]

\* NextResponse.json({ ...result, workflow }): the field written after the
\* spread replaces the one of the result
VideoSuccess(r, workflow) ==
  [status |-> 200, error |-> None, workflow |-> workflow,
   bodyStatus |-> r.status, stage |-> None]

\* workflow = 'quick' by default; workflow === 'studio'
VideoEndpoint(workflow) ==
  IF workflow = "studio" THEN "/api/generate" ELSE "/api/generate-video"

VideoReceive ==
  /\ route = "idle"
  /\ route' = "video"
  /\ pc' = "parsed"
  /\ \E b \in VideoBodies : body' = b
  /\ UNCHANGED <<env, calls, response, editVars, waveVars, componentVars>>

\* the synchronous part of the handler, up to the downstream fetch
VideoForward ==
  /\ route = "video" /\ pc = "parsed"
  /\ IF Falsy(body.prompt)
     THEN /\ response' = [status |-> 400, error |-> "Prompt is required",
                          workflow |-> None, bodyStatus |-> None,
                          stage |-> None]
          /\ pc' = "done"
          /\ calls' = calls
     ELSE IF body.prompt = "number"
     \* prompt.substring(0, 100) throws a TypeError
     THEN /\ response' = VideoFailure("prompt.substring is not a function")
          /\ pc' = "done"
          /\ calls' = calls
     ELSE /\ calls' = Append(calls, VideoEndpoint(body.workflow))
          /\ pc' = "await_downstream"
          /\ response' = response
  /\ UNCHANGED <<env, route, body, editVars, waveVars, componentVars>>

\* the reply of the downstream endpoint and the rest of the handler
VideoDownstreamReply ==
  /\ route = "video" /\ pc = "await_downstream"
  /\ \E r \in DownstreamReplies :
       /\ downstream' = r
       /\ response' =
            IF r.kind = "ok"
            THEN VideoSuccess(r, IF body.workflow = "studio" THEN "studio"
                                 ELSE "quick")
            ELSE IF r.kind = "not_ok"
            THEN VideoFailure(IF body.workflow = "studio"
                              THEN "Studio generation failed"
                              ELSE "Video generation failed")
            ELSE IF r.kind = "bad_json"
            THEN VideoFailure("Unexpected token in JSON")
            ELSE VideoFailure("fetch failed")
  /\ pc' = "done"
  /\ UNCHANGED <<env, route, body, calls, editVars, waveVars, notVideo>>

InitVideo == downstream = NoDownstream

NextVideo ==
  \/ VideoReceive
  \/ VideoForward
  \/ VideoDownstreamReply

-----------------------------------------------------------------------------
(* The three 'likely expired' heuristics: isLikelyExpiredReplicateUrl      *)
(* (lib/image-url-validator.ts), the isLikelyExpired flag computed by      *)
(* saveGeneratedImages (lib/image-utils.ts) and the image display test     *)
(* page.  Times are in milliseconds since the epoch.                       *)

MsPerHour == 1000 * 60 * 60

Clocks == {10 * 24 * MsPerHour}

\* a timestamp as the program receives it: missing, null, a value that is
\* no valid date, or a date
NoTimestamp == [kind |-> "undefined", time |-> 0]

Timestamps(clock) ==
  [kind : {"undefined", "null", "invalid"}, time : {0}]
  \cup [kind : {"date"},
        time : {clock - 48 * MsPerHour, clock - 24 * MsPerHour - 1,
                clock - 24 * MsPerHour, clock - 24 * MsPerHour + 1,
                clock, clock + MsPerHour}]

\* !timestamp
NoTimestampGiven(ts) == ts.kind \in {"undefined", "null"}

\* (clock - date.getTime()) / (1000 * 60 * 60) > 24, false for NaN
OlderThan24Hours(date, clock) ==
  date.kind = "date" /\ clock - date.time > 24 * MsPerHour

\* new Date(value): the epoch for null, an invalid date for undefined
NewDate(dateValue) ==
  IF dateValue.kind = "null" THEN [kind |-> "date", time |-> 0]
  ELSE IF dateValue.kind = "undefined" THEN [kind |-> "invalid", time |-> 0]
  ELSE dateValue

isLikelyExpiredReplicateUrl(url, imageTimestamp, clock) ==
  IF ~isReplicateDeliveryUrl(url) THEN FALSE
  ELSE IF NoTimestampGiven(imageTimestamp) THEN FALSE
  ELSE OlderThan24Hours(imageTimestamp, clock)

\* the callback of completedImages.map: metadata.isLikelyExpired
SavedIsLikelyExpired(img, clock) ==
  LET isReplicateUrl == isReplicateDeliveryUrl(img.url)
      old == IF NoTimestampGiven(img.timestamp) THEN FALSE
             ELSE OlderThan24Hours(img.timestamp, clock)
  IN isReplicateUrl /\ old

\* isOlderThan24Hours(dateString) of the test page
isOlderThan24Hours(dateString, clock) ==
  OlderThan24Hours(NewDate(dateString), clock)

\* createImageCard: isReplicateUrl && isOlderThan24Hours(image.created_at)
PageIsLikelyExpired(img, clock) ==
  isReplicateDeliveryUrl(img.url) /\ isOlderThan24Hours(img.timestamp, clock)

NoImage == [url |-> None, timestamp |-> NoTimestamp]

NoVerdicts == [validator |-> None, saved |-> None, page |-> None]

Verdict(b) == IF b THEN "expired" ELSE "working"

\* URLs the heuristics are applied to (strings)
ExpiryUrls == UrlKinds \ {"undefined", "number"}

\* an image is looked at, at some time
ExpiryPick ==
  /\ image = NoImage
  /\ \E clock \in Clocks :
       /\ now' = clock
       /\ \E u \in ExpiryUrls, ts \in Timestamps(clock) :
            image' = [url |-> u, timestamp |-> ts]
  /\ UNCHANGED <<env, handlerVars, verdicts, notExpiry>>

ExpiryValidator ==
  /\ image # NoImage /\ verdicts.validator = None
  /\ verdicts' = [verdicts EXCEPT !.validator =
       Verdict(isLikelyExpiredReplicateUrl(image.url, image.timestamp, now))]
  /\ UNCHANGED <<env, handlerVars, image, now, notExpiry>>

ExpirySaved ==
  /\ image # NoImage /\ verdicts.saved = None
  /\ verdicts' = [verdicts EXCEPT !.saved =
                    Verdict(SavedIsLikelyExpired(image, now))]
  /\ UNCHANGED <<env, handlerVars, image, now, notExpiry>>

ExpiryPage ==
  /\ image # NoImage /\ verdicts.page = None
  /\ verdicts' = [verdicts EXCEPT !.page =
                    Verdict(PageIsLikelyExpired(image, now))]
  /\ UNCHANGED <<env, handlerVars, image, now, notExpiry>>

InitExpiry ==
  /\ image = NoImage
  /\ now = 0
  /\ verdicts = NoVerdicts

NextExpiry ==
  \/ ExpiryPick
  \/ ExpiryValidator
  \/ ExpirySaved
  \/ ExpiryPage

-----------------------------------------------------------------------------
(* The image progress store (useImageProgressStore).  The functions        *)
(* modelled are addImageGeneration, updateStage, calculateProgress,        *)
(* completeImageGeneration, failImageGeneration and removeProgress; the    *)
(* clock advances in seconds.  The random variance of a progress           *)
(* calculation is any real number of [-0.5, 0.5).                          *)

ImageIds == {"img_1"}

\* the ids of the runs in which two images are generated side by side
AllImageIds == ImageIds \cup {"img_2"}

MaxTime == 13

Stages == {"initializing", "processing", "finalizing", "completed", "failed"}

\* the value of a numeric field that was never written
Undefined == 0 - 1

\* state.progress[imageId] of an id without a record
NoRecord ==
  [status |-> None, stage |-> None, progress |-> Undefined,
   stageMessage |-> None, elapsedTime |-> Undefined,
   estimatedRemainingTime |-> Undefined, estimatedTotalTime |-> Undefined,
   createdAt |-> Undefined, isEdit |-> FALSE]

\* getEstimatedTotalTime(quality = 'standard', isEdit = false)
getEstimatedTotalTime(quality, isEdit) ==
  LET baseTime == IF quality = "hd" THEN 22 ELSE 12
  IN IF isEdit THEN (baseTime * 3) \div 2 ELSE baseTime

\* getStageMessage(stage, model, progress, isEdit) for a model that is none
\* of the named ones; progress 0 fails every 'progress && ...' test
getStageMessage(stage, p, isEdit) ==
  IF stage = "initializing"
  THEN IF isEdit THEN "Initializing AI model for image editing..."
       ELSE "Initializing AI model..."
  ELSE IF stage = "processing"
  THEN IF p > 0 /\ p < 30
       THEN IF isEdit THEN "Analyzing original image..."
            ELSE "Analyzing prompt..."
       ELSE IF p > 0 /\ p < 50
       THEN IF isEdit THEN "Applying edits to image..."
            ELSE "Generating initial concepts..."
       ELSE IF p > 0 /\ p < 70
       THEN IF isEdit THEN "Refining edited regions..."
            ELSE "Rendering image details..."
       ELSE IF p > 0 /\ p < 85 THEN "Enhancing image quality..."
       ELSE "Finalizing generation..."
  ELSE IF stage = "finalizing" THEN "Processing final image..."
  ELSE IF stage = "completed"
  THEN IF isEdit THEN "Image edit complete!"
       ELSE "Image generation complete!"
  ELSE "Generation failed"

\* the order of the stages of a generation; 'failed' is behind them all
StageOrder ==
  <<"failed", "initializing", "processing", "finalizing", "completed">>

StageRank(stage) == CHOOSE i \in DOMAIN StageOrder : StageOrder[i] = stage

stageRanges ==
  [initializing |-> [min |-> 0, max |-> 20],
   processing |-> [min |-> 20, max |-> 85],
   finalizing |-> [min |-> 85, max |-> 100],
   completed |-> [min |-> 100, max |-> 100],
   failed |-> [min |-> 0, max |-> 0]]

Clamp(k, min, max) == IF k < min THEN min ELSE IF k > max THEN max ELSE k

\* calculateProgressFromElapsed(elapsedTime, estimatedTotal, stage): the
\* set of its results over the values of Math.random().  With e the
\* elapsed time capped at the total T and w the width of the range, the
\* calculated progress is min + w * e^2 * (3T - 2e) / T^3; adding a
\* variance of [-0.5, 0.5), clamping and flooring gives the integers from
\* floor(calculated - 1/2) to the largest one below calculated + 1/2,
\* clamped to the range
calculateProgressFromElapsed(elapsedTime, estimatedTotal, stage) ==
  IF stage = "completed" THEN {100}
  ELSE IF stage = "failed" THEN {0}
  ELSE LET range == stageRanges[stage]
           T == estimatedTotal
           e == IF elapsedTime > T THEN T ELSE elapsedTime
           D == T * T * T
           N == e * e * (3 * T - 2 * e) * (range.max - range.min)
           lo == (2 * range.min * D + 2 * N - D) \div (2 * D)
           hi == ((2 * range.min * D + 2 * N + D + 2 * D - 1) \div (2 * D)) - 1
       IN {Clamp(k, range.min, range.max) : k \in lo..hi}

ProgressCapMutant(stage) == 100

\* Math.min(progress, current.stage === 'completed' ? 100 : 99)
ProgressCap(stage) == IF stage = "completed" THEN 100 ELSE 99

Min(a, b) == IF a < b THEN a ELSE b

Abs(a) == IF a < 0 THEN 0 - a ELSE a

\* options of addImageGeneration
AddOptions ==
  {[quality |-> "undefined", isEdit |-> FALSE],
   [quality |-> "hd", isEdit |-> TRUE]}

addImageGeneration(imageId) ==
  /\ \E options \in AddOptions :
       LET estimatedTotal ==
             getEstimatedTotalTime(options.quality, options.isEdit)
       IN progress' = [progress EXCEPT ![imageId] =
            [status |-> "generating", stage |-> "initializing",
             progress |-> 0,
             stageMessage |->
               getStageMessage("initializing", 0, options.isEdit),
             elapsedTime |-> 0,
             estimatedRemainingTime |-> estimatedTotal,
             estimatedTotalTime |-> estimatedTotal,
             createdAt |-> time, isEdit |-> options.isEdit]]
  /\ completedIds' = completedIds \ {imageId}
  /\ movedBack' = movedBack \ {imageId}
  /\ UNCHANGED <<env, handlerVars, time, notProgress>>

updateStage(imageId) ==
  /\ \E stage \in Stages :
       LET currentProgress == progress[imageId]
       IN IF currentProgress = NoRecord
          THEN UNCHANGED <<progress, movedBack>>
          ELSE /\ progress' = [progress EXCEPT ![imageId] =
                    [currentProgress EXCEPT
                       !.stage = stage,
                       !.stageMessage =
                         getStageMessage(stage, currentProgress.progress,
                                         currentProgress.isEdit)]]
               /\ movedBack' =
                    IF StageRank(stage) < StageRank(currentProgress.stage)
                    THEN movedBack \cup {imageId}
                    ELSE movedBack
  /\ UNCHANGED <<env, handlerVars, time, completedIds, notProgress>>

calculateProgress(imageId) ==
  /\ LET current == progress[imageId]
         elapsedTime == time - current.createdAt
         remainingTime ==
           IF current.estimatedTotalTime - elapsedTime < 0 THEN 0
           ELSE current.estimatedTotalTime - elapsedTime
     IN IF current = NoRecord \/ current.status # "generating"
        THEN progress' = progress
        ELSE \E p \in calculateProgressFromElapsed(
                        elapsedTime, current.estimatedTotalTime,
                        current.stage) :
               IF \/ Abs(current.progress - p) >= 1
                  \/ Abs(current.elapsedTime - elapsedTime) >= 1
               THEN progress' = [progress EXCEPT ![imageId] =
                      [current EXCEPT
                         !.elapsedTime = elapsedTime,
                         !.progress = Min(p, ProgressCap(current.stage)),
                         !.estimatedRemainingTime = remainingTime,
                         !.stageMessage =
                           getStageMessage(current.stage, p, current.isEdit)]]
               ELSE progress' = progress
  /\ UNCHANGED <<env, handlerVars, time, completedIds, movedBack,
                 notProgress>>

completeImageGeneration(imageId) ==
  /\ LET current == progress[imageId]
     IN IF current = NoRecord
        THEN UNCHANGED <<progress, completedIds>>
        ELSE /\ progress' = [progress EXCEPT ![imageId] =
                  [current EXCEPT
                     !.progress = 100,
                     !.status = "completed",
                     !.stage = "completed",
                     !.stageMessage =
                       getStageMessage("completed", 100, current.isEdit),
                     !.estimatedRemainingTime = 0]]
             /\ completedIds' = completedIds \cup {imageId}
  /\ UNCHANGED <<env, handlerVars, time, movedBack, notProgress>>

failImageGeneration(imageId) ==
  /\ progress' = [progress EXCEPT ![imageId] =
       [progress[imageId] EXCEPT
          !.status = "failed",
          !.stage = "failed",
          !.stageMessage = getStageMessage("failed", 0, FALSE)]]
  /\ UNCHANGED <<env, handlerVars, time, completedIds, movedBack,
                 notProgress>>

removeProgressMutant(imageId) ==
  /\ progress' = [id \in DOMAIN progress |-> NoRecord]
  /\ completedIds' = completedIds \ {imageId}
  /\ movedBack' = movedBack \ {imageId}
  /\ UNCHANGED <<env, handlerVars, time, notProgress>>

\* const { [imageId]: _, ...rest } = state.progress
removeProgress(imageId) ==
  /\ progress' = [progress EXCEPT ![imageId] = NoRecord]
  /\ completedIds' = completedIds \ {imageId}
  /\ movedBack' = movedBack \ {imageId}
  /\ UNCHANGED <<env, handlerVars, time, notProgress>>

\* a second passes
Tick ==
  /\ time < MaxTime
  /\ time' = time + 1
  /\ UNCHANGED <<env, handlerVars, progress, completedIds, movedBack,
                 notProgress>>

InitProgress ==
  /\ progress = [id \in AllImageIds |-> NoRecord]
  /\ time = 0
  /\ completedIds = {}
  /\ movedBack = {}

NextProgress ==
  \/ \E id \in ImageIds : addImageGeneration(id)
  \/ \E id \in ImageIds : updateStage(id)
  \/ \E id \in ImageIds : calculateProgress(id)
  \/ \E id \in ImageIds : completeImageGeneration(id)
  \/ \E id \in ImageIds : failImageGeneration(id)
  \/ \E id \in ImageIds : removeProgress(id)
  \/ Tick

\* two images generated side by side, at one instant
NextProgressPair ==
  \/ \E id \in AllImageIds : addImageGeneration(id)
  \/ \E id \in AllImageIds : updateStage(id)
  \/ \E id \in AllImageIds : calculateProgress(id)
  \/ \E id \in AllImageIds : completeImageGeneration(id)
  \/ \E id \in AllImageIds : failImageGeneration(id)
  \/ \E id \in AllImageIds : removeProgress(id)

-----------------------------------------------------------------------------
(* saveGeneratedImages (lib/image-utils.ts).  An image is modelled by its  *)
(* id, its isGenerating flag, its url, whether its prompt is a string, and *)
(* the number of bytes of its serialized form.  The browser's storage is   *)
(* available, full (the first setItem throws for lack of quota) or         *)
(* unavailable (every access throws).                                      *)

MaxImages == 32

\* s.startsWith(prefix)
StartsWith(s, prefix) ==
  Len(s) >= Len(prefix) /\ SubSeq(s, 1, Len(prefix)) = prefix

\* s.substring(0, n)
Substring(s, n) == SubSeq(s, 1, Min(n, Len(s)))

\* array.slice(-n); slice(-0) is slice(0), the whole array
SliceLast(array, n) ==
  IF n = 0 \/ n >= Len(array) THEN array
  ELSE SubSeq(array, Len(array) - n + 1, Len(array))

HostedUrl == "https://replicate.delivery/out.png"

ImageBytes == {1024, 512 * 1024}

\* n finished images with hosted urls, each of the same size
FinishedImages(n, bytes) ==
  [i \in 1..n |->
     [id |-> i, isGenerating |-> FALSE, url |-> HostedUrl,
      promptType |-> "string", bytes |-> bytes]]

\* the ways in which one image of the list differs from a finished one
Defect(img, kind) ==
  IF kind = "generating" THEN [img EXCEPT !.isGenerating = TRUE]
  ELSE IF kind = "noUrl" THEN [img EXCEPT !.url = ""]
  ELSE IF kind = "dataUrl"
  THEN [img EXCEPT !.url = "data:image/png;base64,iVBORw0KGgo="]
  ELSE [img EXCEPT !.promptType = "undefined"]

\* the image lists passed to saveGeneratedImages: at most MaxImages
\* images, at most one of them generating, without url, with a data: url
\* or without prompt
Galleries ==
  UNION {{FinishedImages(n, bytes)}
         \cup {[FinishedImages(n, bytes) EXCEPT ![d] = Defect(@, kind)] :
                 d \in 1..n,
                 kind \in {"generating", "noUrl", "dataUrl", "noPrompt"}} :
           n \in 0..MaxImages, bytes \in ImageBytes}

EligibleMutant(img) ==
  /\ ~img.isGenerating
  /\ img.url # ""

\* !img.isGenerating && img.url && !img.url.startsWith('data:')
Eligible(img) ==
  /\ ~img.isGenerating
  /\ img.url # ""
  /\ ~StartsWith(img.url, "data:")

\* prepareForStorage throws where img.prompt.substring is no function
PrepareThrows(imgs) ==
  \E i \in DOMAIN imgs : imgs[i].promptType # "string"

\* prepareForStorage(imgs), as far as the fields of the model go
prepareForStorage(imgs) ==
  [i \in DOMAIN imgs |-> [id |-> imgs[i].id, url |-> Substring(imgs[i].url, 500)]]

RECURSIVE SumBytes(_)
SumBytes(imgs) ==
  IF imgs = <<>> THEN 0 ELSE Head(imgs).bytes + SumBytes(Tail(imgs))

\* calculateDataSize(serialized): the brackets, the serialized images and
\* the commas between them
calculateDataSize(imgs) ==
  2 + SumBytes(imgs) + (IF Len(imgs) > 0 THEN Len(imgs) - 1 ELSE 0)

maxSize == 4 * 1024 * 1024

RECURSIVE ReduceToSize(_)
\* while (dataSize > maxSize && imagesToSave.length > 5)
\*   imagesToSave = imagesToSave.slice(-Math.floor(length * 0.7))
ReduceToSize(imagesToSave) ==
  IF calculateDataSize(imagesToSave) > maxSize /\ Len(imagesToSave) > 5
  THEN ReduceToSize(SliceLast(imagesToSave, (Len(imagesToSave) * 7) \div 10))
  ELSE imagesToSave

\* imagesWithExpirationInfo.slice(-10)
RetryCount == 10

StorageModes == {"available", "full", "unavailable"}

keysToRemoveMutant == {"generatedImages"}

\* clearOldImages: const keysToRemove = ['generatedImages', 'imageCache']
keysToRemove == {"generatedImages", "imageCache"}

\* a key of localStorage that is not set
Absent == [present |-> FALSE, images |-> <<>>]

Stored(images) == [present |-> TRUE, images |-> images]

NoSaveCall ==
  [images |-> <<>>, storage |-> None, returned |-> None, writes |-> <<>>,
   removed |-> {}, before |-> [generatedImages |-> Absent, imageCache |-> Absent]]

\* what earlier sessions may have left in the storage
EarlierContents ==
  [generatedImages : {Absent, Stored(prepareForStorage(FinishedImages(2, 1024)))},
   imageCache : {Absent, Stored(<<>>)}]

\* the storage holds what an earlier session left
StoredEarlier ==
  /\ saveCall = NoSaveCall
  /\ localStorage = [generatedImages |-> Absent, imageCache |-> Absent]
  /\ \E content \in EarlierContents :
       /\ content # localStorage
       /\ localStorage' = content
  /\ UNCHANGED <<env, handlerVars, saveCall, notGallery>>

\* one call of saveGeneratedImages(images).  saveCall.writes lists the
\* setItem calls with the number of images and whether they succeeded,
\* saveCall.removed the keys whose removeItem succeeded
saveGeneratedImages ==
  /\ saveCall = NoSaveCall
  /\ \E images \in Galleries, storage \in StorageModes, retryOk \in BOOLEAN :
       LET completedImages == SelectSeq(images, Eligible)
           first == SliceLast(completedImages, 30)
           imagesToSave == ReduceToSize(first)
           minimalImages == SliceLast(completedImages, RetryCount)
           call == [NoSaveCall EXCEPT !.images = images,
                                      !.storage = storage,
                                      !.returned = "normally",
                                      !.before = localStorage]
           write(imgs, ok) == [count |-> Len(imgs), ok |-> ok]
       IN IF Len(completedImages) = 0 \/ PrepareThrows(first)
          \* nothing to save, or the outer catch block
          THEN /\ retryOk
               /\ saveCall' = call
               /\ localStorage' = localStorage
          ELSE IF storage = "available"
          THEN /\ retryOk
               /\ saveCall' =
                    [call EXCEPT !.writes = <<write(imagesToSave, TRUE)>>]
               /\ localStorage' =
                    [localStorage EXCEPT !.generatedImages =
                       Stored(prepareForStorage(imagesToSave))]
          ELSE IF storage = "full"
          THEN /\ saveCall' =
                    [call EXCEPT
                       !.writes = <<write(imagesToSave, FALSE),
                                    write(minimalImages, retryOk)>>,
                       !.removed = keysToRemove]
               /\ localStorage' =
                    [generatedImages |->
                       IF retryOk
                       THEN Stored(prepareForStorage(minimalImages))
                       ELSE IF "generatedImages" \in keysToRemove
                       THEN Absent
                       ELSE localStorage.generatedImages,
                     imageCache |->
                       IF "imageCache" \in keysToRemove THEN Absent
                       ELSE localStorage.imageCache]
          ELSE /\ ~retryOk
               /\ saveCall' =
                    [call EXCEPT
                       !.writes = <<write(imagesToSave, FALSE),
                                    write(minimalImages, FALSE)>>]
               /\ localStorage' = localStorage
  /\ UNCHANGED <<env, handlerVars, notGallery>>

InitGallery ==
  /\ localStorage = [generatedImages |-> Absent, imageCache |-> Absent]
  /\ saveCall = NoSaveCall

NextGallery ==
  \/ StoredEarlier
  \/ saveGeneratedImages

-----------------------------------------------------------------------------
(* The size parameter of POST /api/edit-image and POST /api/generate-image *)
(* on its way to the OpenAI image client, for requests that pass the       *)
(* checks of prompt, image and API key.                                    *)

SizeStrings ==
  {"undefined", "1024x1024", "1536x1024", "1024x1536", "1792x1024",
   "1024x1792", "512x512", "auto"}

\* destructuring default: size = "1024x1024"
DefaultSize(size) == IF size = "undefined" THEN "1024x1024" ELSE size

validSizes == {"1024x1024", "1536x1024", "1024x1536"}

\* edit-image: let actualSize = size; if (size === '1792x1024') ...
actualSize(size) ==
  IF size = "1792x1024" THEN "1536x1024"
  ELSE IF size = "1024x1536" THEN "1024x1536"
  ELSE IF size \notin validSizes THEN "1024x1024"
  ELSE size

\* generate-image: size as "1024x1024" | "1536x1024" | "1024x1536", a cast
\* that exists at compile time only
CastSize(size) == size

NoSizeRequest ==
  [route |-> "idle", pc |-> "idle", model |-> None, size |-> None,
   imageContext |-> FALSE, client |-> None, passed |-> None]

SizeReceive ==
  /\ sizeRequest.route = "idle"
  /\ \E rt \in {"edit-image", "generate-image"}, m \in ModelNames,
        size \in SizeStrings, c \in BOOLEAN :
       sizeRequest' = [NoSizeRequest EXCEPT
                         !.route = rt, !.pc = "parsed", !.model = m,
                         !.size = size,
                         !.imageContext = (c /\ rt = "generate-image")]
  /\ UNCHANGED <<env, handlerVars, notSize>>

\* POST /api/edit-image: smartEditWithGPTImage1(..., { size: actualSize })
EditImageSize ==
  /\ sizeRequest.route = "edit-image" /\ sizeRequest.pc = "parsed"
  /\ LET model == DefaultModel(sizeRequest.model)
         size == DefaultSize(sizeRequest.size)
     IN sizeRequest' =
          IF model = "gpt-image-1"
          THEN [sizeRequest EXCEPT !.pc = "called",
                                   !.client = "smartEditWithGPTImage1",
                                   !.passed = actualSize(size)]
          ELSE [sizeRequest EXCEPT !.pc = "called"]
  /\ UNCHANGED <<env, handlerVars, notSize>>

\* POST /api/generate-image: generateImageWithContext(..., { size }) or
\* generateImageWithGPTImage1(..., { size })
GenerateImageSize ==
  /\ sizeRequest.route = "generate-image" /\ sizeRequest.pc = "parsed"
  /\ LET model == DefaultModel(sizeRequest.model)
         size == DefaultSize(sizeRequest.size)
     IN sizeRequest' =
          IF GenerateProvider(model) = "openai"
          THEN [sizeRequest EXCEPT
                  !.pc = "called",
                  !.client = IF sizeRequest.imageContext
                             THEN "generateImageWithContext"
                             ELSE "generateImageWithGPTImage1",
                  !.passed = CastSize(size)]
          ELSE [sizeRequest EXCEPT !.pc = "called"]
  /\ UNCHANGED <<env, handlerVars, notSize>>

InitSize == sizeRequest = NoSizeRequest

NextSize ==
  \/ SizeReceive
  \/ EditImageSize
  \/ GenerateImageSize

-----------------------------------------------------------------------------
(* PromptEnhancer (components/ui/prompt-enhancer.tsx), with the prop       *)
(* disabled false.  handleEnhance is a callback of the render in which it  *)
(* was invoked: after its await it goes on with the history, historyIndex  *)
(* and addToHistory of that render, kept in inFlight.  The event handlers  *)
(* of undo, redo and typing are those of the latest render.                *)

MaxHistory == 3

\* what the user types into the prompt field
TypedPrompts == {"", " ", "cat", "dog"}

\* data.enhancedPrompt of a successful reply
EnhancedPrompts == {"a cat, studio light", "a dog, oil on canvas"}

RECURSIVE TrimStart(_)
TrimStart(s) ==
  IF s # "" /\ Head(s) = " " THEN TrimStart(Tail(s)) ELSE s

RECURSIVE TrimEnd(_)
TrimEnd(s) ==
  IF s # "" /\ SubSeq(s, Len(s), Len(s)) = " "
  THEN TrimEnd(SubSeq(s, 1, Len(s) - 1))
  ELSE s

\* value.trim()
Trim(s) == TrimEnd(TrimStart(s))

NotInFlight ==
  [awaiting |-> FALSE, history |-> <<>>, historyIndex |-> 0 - 1,
   promptToEnhance |-> None, regenerate |-> FALSE]

\* the user edits the prompt; the effect on [value, history.length]
\* initializes the history with the first non-empty value
PromptTyped ==
  /\ \E v \in TypedPrompts :
       /\ v # value
       /\ value' = v
       /\ IF v # "" /\ Len(history) = 0
          THEN history' = <<v>> /\ historyIndex' = 0
          ELSE UNCHANGED <<history, historyIndex>>
  /\ UNCHANGED <<env, handlerVars, isEnhancing, hasEnhanced, inFlight,
                 notEnhancer>>

\* handleEnhance(regenerate), up to the await of fetch; handleRegenerate
\* calls it with regenerate = true once hasEnhanced is set
handleEnhance ==
  /\ Trim(value) # "" /\ ~isEnhancing
  /\ Len(history) < MaxHistory
  /\ \E regenerate \in BOOLEAN :
       /\ regenerate => hasEnhanced
       /\ inFlight' =
            [awaiting |-> TRUE, history |-> history,
             historyIndex |-> historyIndex,
             promptToEnhance |->
               IF regenerate /\ historyIndex > 0 THEN history[1]
               ELSE Trim(value),
             regenerate |-> regenerate]
  /\ isEnhancing' = TRUE
  /\ UNCHANGED <<env, handlerVars, value, history, historyIndex, hasEnhanced,
                 notEnhancer>>

\* addToHistory(text) of the render whose history and historyIndex are h
\* and i: the history and index it sets
addToHistory(h, i, text) ==
  LET newHistory == (IF i >= 0 THEN SubSeq(h, 1, i + 1) ELSE <<>>)
                    \o <<text>>
  IN [history |-> newHistory, historyIndex |-> Len(newHistory) - 1]

\* the reply carries success and an enhancedPrompt
EnhanceSucceeds ==
  /\ inFlight.awaiting
  /\ \E enhancedPrompt \in EnhancedPrompts :
       LET added == addToHistory(inFlight.history, inFlight.historyIndex,
                                 enhancedPrompt)
       IN /\ value' = enhancedPrompt
          /\ history' = added.history
          /\ historyIndex' = added.historyIndex
  /\ hasEnhanced' = TRUE
  /\ isEnhancing' = FALSE
  /\ inFlight' = NotInFlight
  /\ UNCHANGED <<env, handlerVars, notEnhancer>>

\* fetch rejects, the reply is not ok or carries no enhancedPrompt
EnhanceFails ==
  /\ inFlight.awaiting
  /\ isEnhancing' = FALSE
  /\ inFlight' = NotInFlight
  /\ UNCHANGED <<env, handlerVars, value, history, historyIndex, hasEnhanced,
                 notEnhancer>>

handleUndo ==
  /\ historyIndex > 0
  /\ historyIndex' = historyIndex - 1
  /\ value' = history[historyIndex' + 1]
  /\ UNCHANGED <<env, handlerVars, history, isEnhancing, hasEnhanced,
                 inFlight, notEnhancer>>

handleRedo ==
  /\ historyIndex < Len(history) - 1
  /\ historyIndex' = historyIndex + 1
  /\ value' = history[historyIndex' + 1]
  /\ UNCHANGED <<env, handlerVars, history, isEnhancing, hasEnhanced,
                 inFlight, notEnhancer>>

InitEnhancer ==
  /\ value = ""
  /\ history = <<>>
  /\ historyIndex = 0 - 1
  /\ isEnhancing = FALSE
  /\ hasEnhanced = FALSE
  /\ inFlight = NotInFlight

NextEnhancer ==
  \/ PromptTyped
  \/ handleEnhance
  \/ EnhanceSucceeds
  \/ EnhanceFails
  \/ handleUndo
  \/ handleRedo

-----------------------------------------------------------------------------
(* Concurrent requests.  The event loop runs a handler until its next      *)
(* await and then resumes any handler whose awaited reply has arrived, so  *)
(* the steps of two requests interleave at their awaits.                   *)

Requests == {"r1", "r2"}

\* the locals of one invocation of POST before the request is parsed
IdleRequest ==
  [route |-> "idle", pc |-> "idle", body |-> NoBody, response |-> NoResponse]

\* the locals a handler reads again after an await: model, destructured
\* from the body by POST /api/generate-image, and attempts, declared by
\* generateMultiImageEdit
NewFrame == [model |-> None, attempts |-> 0]

FrameOfMutant(r) == "r1"

\* the frame that holds the locals of a request: every invocation of POST
\* declares its own locals and constructs its own client
FrameOf(r) == r

\* bodies of the concurrent requests
ConcurrentBodies(rt) ==
  IF rt = "generate-image"
  THEN {b \in GenerateBodies :
          /\ b.prompt \in {"empty", "text"}
          /\ b.model \in {"gpt-image-1", "flux-kontext-pro",
                          "flux-kontext-max"}
          /\ ~b.imageContext}
  ELSE {b \in MultiBodies :
          /\ b.prompt = "text"
          /\ b.imagesType = "array"
          /\ Len(b.images) \in {1, 2}
          /\ \A i \in DOMAIN b.images : b.images[i] = "http"}

\* the response returned by the synchronous part of a handler, NoResponse
\* when the handler reaches its first provider request
SyncResponse(rt, b) ==
  IF rt = "generate-image"
  THEN LET model == DefaultModel(b.model)
           provider == GenerateProvider(model)
       IN IF Falsy(b.prompt)
          THEN ErrorResponse(400, "Prompt is required")
          ELSE IF provider = None
          THEN ErrorResponse(400, "Unsupported model: " \o model)
          ELSE IF ~GenerateKeyConfigured(provider)
          THEN ErrorResponse(500, IF provider = "openai"
                                  THEN "OpenAI API key not configured"
                                  ELSE "Replicate API key not configured")
          ELSE NoResponse
  ELSE IF b.imagesType # "array" \/ Len(b.images) = 0
  THEN ErrorResponse(400, "Images array is required and must not be empty")
  ELSE IF PromptRejected(b.prompt)
  THEN ErrorResponse(400, "Prompt is required")
  ELSE IF Len(b.images) < minImages
  THEN ErrorResponse(400,
         "At least 2 images are required for multi-image editing")
  ELSE IF Len(b.images) > maxImages
  THEN ErrorResponse(400, "Maximum 10 images allowed for multi-image editing")
  ELSE IF ~env.wavespeed
  THEN ErrorResponse(500, "WaveSpeed API key not configured")
  ELSE IF StartsWithThrows(b.images)
  THEN ErrorResponse(500, "Internal server error")
  ELSE IF validateImages(b.images) # <<>>
  THEN ErrorResponse(400, "Invalid images provided")
  ELSE NoResponse

\* the await a handler is suspended at after its synchronous part
FirstAwait(rt, b) ==
  IF rt = "generate-image"
  THEN "await_" \o GenerateProvider(DefaultModel(b.model))
  ELSE "await_submit"

\* the replies a suspended handler can be resumed with
Replies(at) ==
  IF at = "await_submit" THEN SubmitReplies
  ELSE IF at = "await_poll" THEN PollReplies
  ELSE IF at \in {"await_openai", "await_replicate"} THEN {"ok", "error"}
  ELSE {}

\* the locals declared by the synchronous part of a handler
Declare(rt, b) ==
  [NewFrame EXCEPT !.model = IF rt = "generate-image"
                             THEN DefaultModel(b.model) ELSE None]

\* a handler at position l whose locals are in frame f, resumed with a
\* reply: its position and its frame after it ran up to its next await or
\* its return, which ends the life of its locals
Resume(l, f, reply) ==
  LET a == f.attempts
      return(resp) ==
        [request |-> [l EXCEPT !.pc = "done", !.response = resp],
         frame |-> NewFrame]
      poll(n) ==
        [request |-> [l EXCEPT !.pc = "await_poll"],
         frame |-> [f EXCEPT !.attempts = n]]
  IN IF l.pc = "await_openai"
     THEN return(IF reply = "ok"
                 THEN SuccessResponse("gpt-image-1", "openai")
                 ELSE ErrorResponse(500,
                        "Failed to generate image with GPT-Image-1"))
     ELSE IF l.pc = "await_replicate"
     THEN return(IF reply = "ok"
                 THEN SuccessResponse(f.model, "replicate")
                 ELSE ErrorResponse(500, "Failed to generate image with "
                                         \o f.model))
     ELSE IF l.pc = "await_submit"
     THEN IF reply = "task"
          THEN IF PollLoopCondition(0)
               THEN poll(1)
               ELSE return(MultiRespond(ClientFailure(
                             "Task timed out after 2 minutes")))
          ELSE return(MultiRespond(ClientFailure("Failed to submit task")))
     ELSE IF l.pc = "await_poll"
     THEN IF PollBody(reply) = "return"
          THEN return(MultiRespond(ClientSuccess))
          ELSE IF PollBody(reply) = "throw" /\ InnerCatchRethrows(a)
          THEN return(MultiRespond(ClientFailure(PollErrorMessage(reply))))
          ELSE IF PollLoopCondition(a)
          THEN poll(a + 1)
          ELSE return(MultiRespond(ClientFailure(
                        "Task timed out after 2 minutes")))
     ELSE [request |-> l, frame |-> f]

\* another request is suspended at an await while r takes a step
OtherInFlight(r) ==
  \E o \in Requests \ {r} : requests[o].pc \notin {"idle", "parsed", "done"}

\* a request arrives and its body is parsed
ConcurrentReceive(r) ==
  /\ requests[r].pc = "idle"
  /\ \E rt \in {"generate-image", "edit-multi-image"} :
       \E b \in ConcurrentBodies(rt) :
         LET l == [route |-> rt, pc |-> "parsed", body |-> b,
                   response |-> NoResponse]
         IN /\ requests' = [requests EXCEPT ![r] = l]
            /\ alone' = [alone EXCEPT ![r].request = l]
  /\ interleaved' = (interleaved \/ OtherInFlight(r))
  /\ UNCHANGED <<env, handlerVars, frames, notConcurrent>>

\* the synchronous part of the handler, up to its first provider request
ConcurrentSync(r) ==
  /\ requests[r].pc = "parsed"
  /\ LET l == requests[r]
         resp == SyncResponse(l.route, l.body)
         next == IF resp # NoResponse
                 THEN [l EXCEPT !.pc = "done", !.response = resp]
                 ELSE [l EXCEPT !.pc = FirstAwait(l.route, l.body)]
         locals == Declare(l.route, l.body)
     IN /\ requests' = [requests EXCEPT ![r] = next]
        /\ frames' = [frames EXCEPT ![FrameOf(r)] = locals]
        /\ alone' = [alone EXCEPT ![r] = [request |-> next, frame |-> locals]]
  /\ interleaved' = (interleaved \/ OtherInFlight(r))
  /\ UNCHANGED <<env, handlerVars, notConcurrent>>

\* the awaited reply arrives and the handler runs to its next await
ConcurrentResume(r) ==
  /\ \E reply \in Replies(requests[r].pc) :
       LET f == FrameOf(r)
           real == Resume(requests[r], frames[f], reply)
           solo == Resume(alone[r].request, alone[r].frame, reply)
       IN /\ requests' = [requests EXCEPT ![r] = real.request]
          /\ frames' = [frames EXCEPT ![f] = real.frame]
          /\ alone' = [alone EXCEPT ![r] = solo]
  /\ interleaved' = (interleaved \/ OtherInFlight(r))
  /\ UNCHANGED <<env, handlerVars, notConcurrent>>

InitConcurrent ==
  /\ requests = [r \in Requests |-> IdleRequest]
  /\ frames = [r \in Requests |-> NewFrame]
  /\ alone = [r \in Requests |-> [request |-> IdleRequest, frame |-> NewFrame]]
  /\ interleaved = FALSE

NextConcurrent ==
  \/ \E r \in Requests : ConcurrentReceive(r)
  \/ \E r \in Requests : ConcurrentSync(r)
  \/ \E r \in Requests : ConcurrentResume(r)

Init ==
  /\ env \in Env
  /\ route = "idle"
  /\ pc = "idle"
  /\ body = NoBody
  /\ calls = <<>>
  /\ response = NoResponse
  /\ validImageUrl = None
  /\ recoveryRound = 0
  /\ steps = <<>>
  /\ thrown = NoError
  /\ attempts = 0
  /\ terminal = None
  /\ polledAfterTerminal = FALSE
  /\ result = NoResult
  /\ InitConcurrent
  /\ InitSearch
  /\ InitVideo
  /\ InitExpiry
  /\ InitProgress
  /\ InitGallery
  /\ InitSize
  /\ InitEnhancer

Next ==
  \/ GenerateReceive
  \/ GenerateDispatch
  \/ GenerateOpenAIReply
  \/ GenerateReplicateReply
  \/ MultiReceive
  \/ MultiValidate
  \/ generateMultiImageEdit_Submit
  \/ generateMultiImageEdit_Poll
  \/ EditReceive
  \/ EditValidate
  \/ EditHeadReply
  \/ EditLookupReply
  \/ EditEnsureReply
  \/ EditOpenAIReply
  \/ EditReplicateReply

Spec == Init /\ [][Next]_vars

SpecConcurrent == Init /\ [][NextConcurrent]_vars

\* every API key is configured
InitConfigured ==
  Init /\ env = [openai |-> TRUE, replicate |-> TRUE, wavespeed |-> TRUE]

SpecSearch == InitConfigured /\ [][NextSearch]_vars

SpecVideo == InitConfigured /\ [][NextVideo]_vars

SpecExpiry == InitConfigured /\ [][NextExpiry]_vars

SpecProgress == InitConfigured /\ [][NextProgress]_vars

SpecProgressPair == InitConfigured /\ [][NextProgressPair]_vars

SpecGallery == InitConfigured /\ [][NextGallery]_vars

SpecSize == InitConfigured /\ [][NextSize]_vars

SpecEnhancer == InitConfigured /\ [][NextEnhancer]_vars

-----------------------------------------------------------------------------
(* Properties *)

\* number of status polls issued so far
PollsIssued == Cardinality({i \in DOMAIN calls : calls[i] = "wavespeed.poll"})

\* C1: in generateMultiImageEdit polling stops at the first terminal state:
\* after a poll reply 'completed' with outputs or 'failed' no further poll
\* is issued, and the call returns success=true with the first output,
\* respectively success=false with the task-failure error.
C1_PollingStopsAtFirstTerminal ==
  route = "edit-multi-image" =>
    /\ ~polledAfterTerminal
    /\ (pc = "done" /\ terminal = "completed" =>
          result.success /\ result.imageUrl = "outputs[0]")
    /\ (pc = "done" /\ terminal = "failed" =>
          ~result.success /\ result.error = "Task failed: Unknown error")

\* C2: whatever the WaveSpeed API replies, generateMultiImageEdit issues at
\* most 120 status polls and then returns a response object (it never
\* throws), and without a terminal poll reply the result is success=false.
C2_BoundedPolling ==
  route = "edit-multi-image" =>
    /\ PollsIssued <= 120
    /\ attempts = PollsIssued
    /\ (pc = "await_poll" => attempts >= 1)
    /\ (pc = "done" /\ calls # <<>> =>
          /\ result.kind = "returned"
          /\ response # NoResponse
          /\ (terminal = None => ~result.success /\ response.status = 500))

\* C2 witness: the task never left 'processing' and the 120th poll was the
\* last one
C2_TimedOut ==
  /\ route = "edit-multi-image" /\ pc = "done"
  /\ PollsIssued = 120
  /\ terminal = None
  /\ result.error = "Task timed out after 2 minutes"

\* outcomes with which a recovery step has failed
FailedOutcomes == {"not_ok", "throw", "miss"}

\* the request is in the Flux branch of edit-image with a URL that is
\* neither a data: URL nor a Vercel Blob URL
FluxRecoveryCase ==
  /\ route = "edit-image"
  /\ steps # <<>>

\* C3 (as stated): the recovery steps run strictly in the order HEAD check,
\* lookup by imageId, download, 400 error, and whenever the HEAD check
\* failed and the request carries an imageId the persisted URL is looked up
\* before any download is attempted.
C3_LookupBeforeDownloadWithId ==
  FluxRecoveryCase =>
    \A i \in DOMAIN steps :
      steps[i].step = "ensureImageUrlAccessible" =>
        /\ body.imageId =>
             \E j \in 1..(i - 1) : steps[j].step = "getImageByLocalId"
        /\ \A j \in (i + 1)..Len(steps) :
             steps[j].step # "getImageByLocalId"

\* C3 (amended): the HEAD check is the first step; every later step starts
\* only after the step before it failed; the lookup is made only for a
\* request with an imageId and a replicate.delivery URL, and for such a
\* request every download directly follows a lookup that found nothing;
\* the 400 response follows a failed download of the catch block.
C3_RecoveryOrder ==
  FluxRecoveryCase =>
    /\ steps[1].step = "HEAD"
    /\ \A i \in 2..Len(steps) :
         /\ steps[i].step # "HEAD"
         /\ steps[i - 1].outcome \in FailedOutcomes
         /\ steps[i].step = "getImageByLocalId" =>
              body.imageId /\ body.imageUrl = "replicate"
         /\ steps[i].step = "ensureImageUrlAccessible"
              /\ body.imageId /\ body.imageUrl = "replicate" =>
              /\ steps[i - 1].step = "getImageByLocalId"
              /\ steps[i - 1].outcome = "miss"
    /\ response.errorType = "url_expired" =>
         /\ steps[Len(steps)].step = "ensureImageUrlAccessible"
         /\ steps[Len(steps)].outcome = "throw"
         /\ recoveryRound = 2

\* C3 witness: the HEAD check failed for a Replicate URL with an imageId,
\* the lookup found nothing and the download is being attempted
C3_DownloadAfterLookupMiss ==
  /\ route = "edit-image"
  /\ body.imageId /\ body.imageUrl = "replicate"
  /\ Len(steps) = 3
  /\ steps[1] = [step |-> "HEAD", outcome |-> "not_ok"]
  /\ steps[2] = [step |-> "getImageByLocalId", outcome |-> "miss"]
  /\ steps[3].step = "ensureImageUrlAccessible"

\* C4: with a Flux model, if the image URL is inaccessible and every
\* recovery step fails (returns nothing or throws), the response is HTTP
\* 400 'Image URL expired or inaccessible' with errorType 'url_expired',
\* and ReplicateImageClient.editImage is never called.
C4_AllRecoveryFailed ==
  /\ FluxRecoveryCase
  /\ pc = "done"
  /\ \A i \in DOMAIN steps : steps[i].outcome \in FailedOutcomes
  => /\ response.status = 400
     /\ response.error = "Image URL expired or inaccessible"
     /\ response.errorType = "url_expired"
     /\ \A i \in DOMAIN calls : calls[i] # "replicate.editImage"

\* a provider call of edit-image has thrown and the catch block has answered
EditProviderFailed ==
  /\ route = "edit-image" /\ pc = "done"
  /\ calls # <<>>
  /\ calls[Len(calls)] \in {"openai.smartEditWithGPTImage1",
                            "replicate.editImage"}
  /\ ~response.success

\* the triggers of the categories the claim names
RateLimitTrigger(e) == "rate_limit_exceeded" \in e.message

ModerationTrigger(e) ==
  \/ "safety system" \in e.message
  \/ e.code = "moderation_blocked"
  \/ e.type = "image_generation_user_error"

ModelNotFoundTrigger(e) == "model_not_found" \in e.message

InvalidRequestTrigger(e) == "invalid_request_error" \in e.message

ExpiredUrlTrigger(e) ==
  "404 Client Error" \in e.message /\ "replicate.delivery" \in e.message

\* C5 (as stated): a provider error that matches a category's trigger
\* always produces that category's response, whatever else it contains,
\* and an error matching none of the three triggers gives 500.
C5_TriggerAlwaysWins ==
  EditProviderFailed =>
    /\ RateLimitTrigger(thrown) =>
         response.status = 429 /\ response.error = "Rate limit exceeded"
    /\ ModerationTrigger(thrown) =>
         response.status = 400 /\ response.error = "Content not allowed"
    /\ ModelNotFoundTrigger(thrown) =>
         response.status = 400 /\ response.error = "Model not available"
    /\ ~RateLimitTrigger(thrown) /\ ~ModerationTrigger(thrown)
         /\ ~ModelNotFoundTrigger(thrown) =>
         response.status = 500 /\ response.error = "Failed to edit image"

\* C5 (amended): the response is the one of the first category, in the
\* order invalid request, rate limit, expired Replicate URL, moderation,
\* model not found, whose trigger the error matches; an error matching none
\* of the five gives 500 'Failed to edit image'.
C5_FirstTriggerWins ==
  EditProviderFailed =>
    LET want ==
          IF InvalidRequestTrigger(thrown) THEN <<400, "Invalid request">>
          ELSE IF RateLimitTrigger(thrown) THEN <<429, "Rate limit exceeded">>
          ELSE IF ExpiredUrlTrigger(thrown) THEN <<400, "Image URL expired">>
          ELSE IF ModerationTrigger(thrown)
          THEN <<400, "Content not allowed">>
          ELSE IF ModelNotFoundTrigger(thrown)
          THEN <<400, "Model not available">>
          ELSE <<500, "Failed to edit image">>
    IN response.status = want[1] /\ response.error = want[2]

\* C5 witness: an error that matches the rate-limit and the moderation
\* trigger is answered 429
C5_RateLimitBeforeModeration ==
  /\ EditProviderFailed
  /\ RateLimitTrigger(thrown) /\ ModerationTrigger(thrown)
  /\ response.status = 429

\* a field the handler requires is missing from the request body
RequiredFieldMissing ==
  \/ /\ route = "edit-image"
     /\ body.imageUrl \in {"undefined", "empty"}
          \/ body.prompt \in {"undefined", "empty"}
  \/ /\ route = "generate-image"
     /\ body.prompt \in {"undefined", "empty"}
  \/ /\ route = "edit-multi-image"
     /\ body.imagesType = "undefined"
          \/ body.prompt \in {"undefined", "empty"}

\* C6: every POST handler validates the required inputs before it selects a
\* provider or checks an API key: a request missing a required field is
\* answered 400 whatever model it names and whichever keys are configured.
C6_ValidationBeforeKeys ==
  pc = "done" /\ RequiredFieldMissing =>
    response.status = 400 /\ calls = <<>>

\* C7: generate-image calls at most one provider, at most once; the model
\* string alone chooses it: gpt-image-1 the OpenAI image client, the three
\* Flux models Replicate, any other model 400 'Unsupported model' without a
\* call; a provider failure is answered 500 without retry or fallback.
C7_OneProviderByModel ==
  route = "generate-image" =>
    LET model == IF body.model = "undefined" THEN "flux-kontext-pro"
                 ELSE body.model
        flux == {"flux-kontext-pro", "flux-kontext-max",
                 "flux-dev-ultra-fast"}
        openaiCalls == {"openai.generateImageWithContext",
                        "openai.generateImageWithGPTImage1"}
    IN /\ Len(calls) <= 1
       /\ \A i \in DOMAIN calls :
            /\ calls[i] \in openaiCalls <=> model = "gpt-image-1"
            /\ calls[i] = "replicate.generateImage" <=> model \in flux
       /\ pc = "done" /\ body.prompt \notin {"undefined", "empty"}
            /\ model \notin flux \cup {"gpt-image-1"} =>
            /\ response.status = 400
            /\ response.error = "Unsupported model: " \o model
            /\ calls = <<>>
       /\ pc = "done" /\ calls # <<>> /\ ~response.success =>
            /\ response.status = 500
            /\ Len(calls) = 1

\* C7 witness: Replicate failed for a Flux model and the handler answered
\* 500 after its single call
C7_ReplicateFailedOnce ==
  /\ route = "generate-image" /\ pc = "done"
  /\ body.model = "flux-dev-ultra-fast"
  /\ calls = <<"replicate.generateImage">>
  /\ response.status = 500

\* the request is valid apart from the API key of its model, which is not
\* configured
ValidButKeyMissing ==
  LET model == IF body.model = "undefined" THEN "flux-kontext-pro"
               ELSE body.model
  IN \/ /\ route = "edit-image"
        /\ body.imageUrl \in {"data", "blob", "replicate", "http"}
        /\ body.prompt = "text"
        /\ \/ model = "gpt-image-1" /\ ~env.openai
           \/ model \in {"flux-kontext-pro", "flux-kontext-max"}
                /\ ~env.replicate
     \/ /\ route = "generate-image"
        /\ body.prompt = "text"
        /\ \/ model = "gpt-image-1" /\ ~env.openai
           \/ model \in {"flux-kontext-pro", "flux-kontext-max",
                         "flux-dev-ultra-fast"} /\ ~env.replicate
     \/ /\ route = "edit-multi-image"
        /\ body.imagesType = "array"
        /\ Len(body.images) \in 2..10
        /\ \A i \in DOMAIN body.images : body.images[i] \in {"data", "http"}
        /\ body.prompt = "text"
        /\ ~env.wavespeed

\* C8: when the API key the selected model needs is not configured, an
\* otherwise valid request is answered 500 with an 'API key not configured'
\* error and no request is sent to any provider.
C8_MissingKeyIs500 ==
  ValidButKeyMissing =>
    /\ calls = <<>>
    /\ pc = "done" =>
         /\ response.status = 500
         /\ response.error \in {"OpenAI API key not configured",
                                "Replicate API key not configured",
                                "WaveSpeed API key not configured"}

\* C8 witness: generate-image answered 500 for a Flux model without the
\* Replicate key
C8_GenerateWithoutReplicateKey ==
  /\ route = "generate-image" /\ pc = "done"
  /\ body.model = "flux-kontext-max" /\ body.prompt = "text"
  /\ ~env.replicate
  /\ response.error = "Replicate API key not configured"

\* the multi-image request the claim allows to be submitted
MultiRequestAcceptable ==
  /\ body.imagesType = "array"
  /\ Len(body.images) >= 2 /\ Len(body.images) <= 10
  /\ body.prompt = "text"
  /\ \A i \in DOMAIN body.images : body.images[i] \in {"data", "http"}

\* C9: edit-multi-image submits a task to WaveSpeed only for 2 to 10
\* images, a non-blank string prompt and images that are strings starting
\* with 'data:' or 'http'; every other request is rejected with 400, or
\* with 500 for a missing key, without any WaveSpeed call.
C9_MultiSubmitOnlyIfValid ==
  route = "edit-multi-image" =>
    /\ calls # <<>> => MultiRequestAcceptable
    /\ pc = "done" /\ ~MultiRequestAcceptable =>
         /\ calls = <<>>
         /\ \/ response.status = 400
            \/ response.status = 500 /\ ~env.wavespeed

\* the provider whose client the handler called last
ProviderCalled ==
  IF calls = <<>> THEN None
  ELSE IF calls[Len(calls)] \in {"openai.generateImageWithContext",
                                 "openai.generateImageWithGPTImage1",
                                 "openai.smartEditWithGPTImage1"}
  THEN "openai"
  ELSE IF calls[Len(calls)] \in {"replicate.generateImage",
                                 "replicate.editImage"}
  THEN "replicate"
  ELSE "wavespeed"

\* C10: every success response has success=true, exactly one image with
\* index 0, metadata.model the model the route dispatched on (the request's
\* model, or 'flux-kontext-max-multi' for the multi-image route) and
\* metadata.provider the provider that was called.
C10_SuccessShape ==
  response.success =>
    /\ response.status = 200
    /\ Len(response.images) = 1
    /\ response.images[1].index = 0
    /\ response.model =
         IF route = "edit-multi-image" THEN "flux-kontext-max-multi"
         ELSE IF body.model = "undefined" THEN "flux-kontext-pro"
         ELSE body.model
    /\ response.provider = ProviderCalled

HasUserMessage ==
  /\ body.messagesType = "array"
  /\ \E i \in DOMAIN body.messages : body.messages[i].role = "user"

\* C12: POST /api/perplexity-search calls the Perplexity client if and only
\* if the messages contain a message with role 'user' and either the
\* detector returns needsSearch for the last user message or forceSearch is
\* true; in every other case it makes no provider call and answers 400 (no
\* messages, no user message) or { needsSearch: false }.
C12_SearchCalledIffWanted ==
  (route = "perplexity-search" /\ pc \in {"await_perplexity", "done"}) =>
    LET wanted == HasUserMessage
                  /\ (searchIntent.needsSearch \/ body.forceSearch)
        called == \E i \in DOMAIN calls : calls[i] = "perplexity.search"
    IN /\ called <=> wanted
       /\ (~wanted /\ pc = "done") =>
            IF HasUserMessage
            THEN response.status = 200 /\ response.needsSearch = "false"
            ELSE response.status = 400

\* C13: the unified video handler forwards each request that has a prompt to
\* exactly one downstream endpoint, /api/generate for workflow 'studio' and
\* /api/generate-video for every other workflow; the workflow of the
\* returned JSON names the route taken whatever the downstream result says;
\* a request without a prompt is answered 400 with no downstream call; a
\* non-OK downstream reply yields 500 with status 'failed', stage 'failed'.
C13_ForwardedToOneEndpoint ==
  (route = "video" /\ pc \in {"await_downstream", "done"}) =>
    LET hasPrompt == body.prompt \notin {"undefined", "empty"}
        studio == body.workflow = "studio"
    IN /\ hasPrompt =>
            calls = <<IF studio THEN "/api/generate"
                      ELSE "/api/generate-video">>
       /\ ~hasPrompt => calls = <<>> /\ response.status = 400
       /\ (pc = "done" /\ downstream.kind = "ok") =>
            response.workflow = IF studio THEN "studio" ELSE "quick"
       /\ (pc = "done" /\ downstream.kind = "not_ok") =>
            /\ response.status = 500
            /\ response.bodyStatus = "failed"
            /\ response.stage = "failed"

\* C14: the three 'likely expired' heuristics agree for every URL and
\* timestamp: each says expired exactly when the URL contains
\* 'replicate.delivery' and the image is strictly more than 24 hours old,
\* and each says not expired when no timestamp is available.
C14_HeuristicsAgree ==
  image # NoImage =>
    LET expired == /\ image.url = "replicate"
                   /\ image.timestamp.kind = "date"
                   /\ now - image.timestamp.time > 24 * MsPerHour
        expected == IF expired THEN "expired" ELSE "working"
    IN /\ verdicts.validator \in {None, expected}
       /\ verdicts.saved \in {None, expected}
       /\ verdicts.page \in {None, expected}

-----------------------------------------------------------------------------
(* The image progress store.                                               *)

-----------------------------------------------------------------------------
(* The search intent detector, as the search route calls it.               *)

\* the content of the last user message of the request
LastUserContent ==
  LET users == UserMessages(body.messages)
  IN users[Len(users)].content

\* the route has called detectSearchIntent(lastUserMessage.content) and it
\* returned
DetectorReturned ==
  /\ route = "perplexity-search"
  /\ pc \in {"await_perplexity", "done"}
  /\ HasUserMessage
  /\ LET users == UserMessages(body.messages)
     IN users[Len(users)].contentType = "string"

\* C16: detectSearchIntent returns { needsSearch: false } for every message
\* that contains an action-exclusion keyword or matches a generative
\* pattern, whatever search keywords it contains as well; for every other
\* message needsSearch is true exactly if a current-information, factual or
\* research keyword occurs in it.
C16_ExclusionsComeFirst ==
  DetectorReturned =>
    LET lower == toLowerCase(LastUserContent)
        excluded ==
          \/ \E k \in actionExclusions : Includes(lower, k)
          \/ GenerativePattern1(lower) \/ GenerativePattern2(lower)
          \/ GenerativePattern3(lower) \/ GenerativePattern4(lower)
          \/ GenerativePattern5(lower)
        keyword ==
          \E k \in currentInfoKeywords \cup factualKeywords
                   \cup researchKeywords : Includes(lower, k)
    IN IF excluded THEN searchIntent = NoSearch
       ELSE searchIntent.needsSearch <=> keyword

\* the detector has refused a message that holds a current-information
\* keyword next to an action keyword
C16_ExcludedDespiteKeyword ==
  /\ DetectorReturned
  /\ Includes(toLowerCase(LastUserContent), "create")
  /\ Includes(toLowerCase(LastUserContent), "latest")
  /\ ~searchIntent.needsSearch
  /\ response.needsSearch = "false"

\* C17: when detectSearchIntent returns needsSearch = true, searchType is
\* 'current_events' if a current-information keyword matched, otherwise
\* 'research' if a research keyword matched, otherwise 'factual'; and every
\* intent of type 'research' has complexity 'complex', requiresAsync = true
\* and estimatedDuration 60.
C17_SearchTypePriority ==
  (DetectorReturned /\ searchIntent.needsSearch) =>
    LET lower == toLowerCase(LastUserContent)
    IN /\ searchIntent.searchType =
            IF \E k \in currentInfoKeywords : Includes(lower, k)
            THEN "current_events"
            ELSE IF \E k \in researchKeywords : Includes(lower, k)
            THEN "research"
            ELSE "factual"
       /\ searchIntent.searchType = "research" =>
            /\ searchIntent.complexity = "complex"
            /\ searchIntent.requiresAsync
            /\ searchIntent.estimatedDuration = 60

\* the detector has classified a message with a research keyword and no
\* current-information keyword
C17_ResearchIntent ==
  /\ DetectorReturned
  /\ Includes(toLowerCase(LastUserContent), "compare")
  /\ ~Includes(toLowerCase(LastUserContent), "latest")
  /\ searchIntent.needsSearch
  /\ searchIntent.searchType = "research"
  /\ searchIntent.estimatedDuration = 60

-----------------------------------------------------------------------------
(* saveGeneratedImages.                                                    *)

\* the images of the call that are finished and have a url that is no
\* data: url, in the order of the call
EligibleImages ==
  LET eligible(img) ==
        /\ ~img.isGenerating
        /\ img.url # ""
        /\ ~(Len(img.url) >= 5 /\ SubSeq(img.url, 1, 5) = "data:")
  IN SelectSeq(saveCall.images, eligible)

\* a setItem of the call succeeded
WroteSuccessfully ==
  \E i \in DOMAIN saveCall.writes : saveCall.writes[i].ok

\* the first setItem of the call threw
FirstWriteFailed ==
  Len(saveCall.writes) >= 1 /\ ~saveCall.writes[1].ok

\* C18: after saveGeneratedImages has written successfully, the stored
\* 'generatedImages' holds only images that are not generating and have a
\* non-empty url that does not start with 'data:', in their original
\* order, and is a suffix of at most 30 of the eligible images.
C18_StoredIsEligibleSuffix ==
  WroteSuccessfully =>
    LET stored == localStorage.generatedImages.images
        skipped == Len(EligibleImages) - Len(stored)
    IN /\ localStorage.generatedImages.present
       /\ Len(stored) >= 1 /\ Len(stored) <= 30
       /\ skipped >= 0
       /\ \A i \in DOMAIN stored :
            /\ stored[i].id = EligibleImages[skipped + i].id
            /\ stored[i].url = EligibleImages[skipped + i].url
            /\ stored[i].url # ""
            /\ SubSeq(stored[i].url, 1, 5) # "data:"

\* a list of 32 images with a data: url among its last 30 was saved as the
\* last 30 of its 31 eligible images
C18_ThirtyOfThirtyOne ==
  /\ WroteSuccessfully
  /\ Len(saveCall.images) = 32
  /\ \E i \in 3..32 :
       /\ Len(saveCall.images[i].url) >= 5
       /\ SubSeq(saveCall.images[i].url, 1, 5) = "data:"
  /\ Len(localStorage.generatedImages.images) = 30

\* C19 as stated: saveGeneratedImages never throws; when its first write
\* fails it removes the keys 'generatedImages' and 'imageCache' and retries
\* once with the 10 most recent eligible images; when the retry fails too
\* it returns normally and the previous gallery is erased.
C19_ClearsAndRetries ==
  /\ saveCall # NoSaveCall => saveCall.returned = "normally"
  /\ FirstWriteFailed =>
       /\ Len(saveCall.writes) = 2
       /\ saveCall.writes[2].count =
            (IF Len(EligibleImages) < 10 THEN Len(EligibleImages) ELSE 10)
       /\ ~localStorage.imageCache.present
       /\ IF saveCall.writes[2].ok
          THEN /\ localStorage.generatedImages.present
               /\ Len(localStorage.generatedImages.images) =
                    saveCall.writes[2].count
          ELSE ~localStorage.generatedImages.present

\* C19 amended: saveGeneratedImages never throws; when its first write
\* fails it calls removeItem for 'generatedImages' and 'imageCache' and
\* retries once with the 10 most recent eligible images, and returns
\* normally whether or not the retry succeeds.  When the storage is full
\* both keys are removed, so that after a failed retry the previous gallery
\* is erased; when the storage is unavailable the removals throw as well
\* and both keys keep their previous content.
C19_RemovesWhatItCan ==
  /\ saveCall # NoSaveCall => saveCall.returned = "normally"
  /\ FirstWriteFailed =>
       /\ Len(saveCall.writes) = 2
       /\ saveCall.writes[2].count =
            (IF Len(EligibleImages) < 10 THEN Len(EligibleImages) ELSE 10)
       /\ IF saveCall.storage = "unavailable"
          THEN /\ ~saveCall.writes[2].ok
               /\ localStorage = saveCall.before
          ELSE /\ ~localStorage.imageCache.present
               /\ IF saveCall.writes[2].ok
                  THEN /\ localStorage.generatedImages.present
                       /\ Len(localStorage.generatedImages.images) =
                            saveCall.writes[2].count
                  ELSE ~localStorage.generatedImages.present

\* the first write of more than 10 eligible images failed on a storage that
\* held an earlier gallery, and the retry stored the last 10
C19_RetriedWithTen ==
  /\ FirstWriteFailed
  /\ saveCall.before.generatedImages.present
  /\ saveCall.writes[1].count > 10
  /\ saveCall.writes[2].ok
  /\ Len(localStorage.generatedImages.images) = 10

-----------------------------------------------------------------------------
(* Image sizes.                                                            *)

\* C20: for every requested size string, the size passed to the OpenAI
\* image client is '1024x1024', '1536x1024' or '1024x1536', in the
\* edit-image route (which maps '1792x1024' to '1536x1024' and every other
\* unsupported size to '1024x1024') and in the generate-image route.
C20_OpenAISizeSupported ==
  sizeRequest.client # None =>
    /\ sizeRequest.passed \in {"1024x1024", "1536x1024", "1024x1536"}
    /\ sizeRequest.route = "edit-image" =>
         sizeRequest.passed =
           IF sizeRequest.size = "1792x1024" THEN "1536x1024"
           ELSE IF sizeRequest.size \in {"1536x1024", "1024x1536"}
           THEN sizeRequest.size
           ELSE "1024x1024"

\* C21: calculateProgress changes nothing for an id that has no record or
\* whose record has status 'completed' or 'failed'; completeImageGeneration
\* and updateStage change nothing for an id that has no record; and no
\* action invoked for one imageId changes the record of another imageId.
C21_FrameEffects ==
  [][\A id \in AllImageIds :
       LET old == progress[id]
       IN /\ \/ progress' = progress
             \/ ~( /\ \/ old = NoRecord
                      \/ old.status \in {"completed", "failed"}
                   /\ calculateProgress(id) )
          /\ \/ progress' = progress
             \/ ~( /\ old = NoRecord
                   /\ completeImageGeneration(id) \/ updateStage(id) )
          /\ \/ \A other \in AllImageIds \ {id} :
                  progress'[other] = progress[other]
             \/ ~( \/ addImageGeneration(id) \/ updateStage(id)
                   \/ calculateProgress(id) \/ completeImageGeneration(id)
                   \/ failImageGeneration(id) \/ removeProgress(id) )]_vars

\* one image is completed while the other is generating, in the stage
\* 'processing' with a calculated progress
C21_TwoRecords ==
  /\ progress["img_1"].status = "completed"
  /\ progress["img_2"].status = "generating"
  /\ progress["img_2"].stage = "processing"
  /\ progress["img_2"].progress = 20

\* C23: while a record stays in status 'generating' and its stage does not
\* move backwards, the progress written by successive calculateProgress
\* calls never decreases, whatever the random variance.
C23_ProgressNeverDecreases ==
  [][\A id \in ImageIds :
       ( /\ progress[id].status = "generating"
         /\ id \notin movedBack
         /\ calculateProgress(id) )
       => progress'[id].progress >= progress[id].progress]_vars

-----------------------------------------------------------------------------
(* PromptEnhancer.                                                         *)

\* C22: a successful enhancement appends the enhanced text directly after
\* the history position that is current when the response arrives and
\* discards every entry beyond it, so that immediately afterwards redo is
\* unavailable and the displayed prompt equals history[historyIndex], also
\* when the user pressed undo or redo while the request was in flight.
C22_AppendsAtCurrentPosition ==
  [][EnhanceSucceeds =>
       /\ history' = SubSeq(history, 1, historyIndex + 1) \o <<value'>>
       /\ historyIndex' = Len(history') - 1
       /\ ~(historyIndex' < Len(history') - 1)
       /\ value' = history'[historyIndex' + 1]]_vars

====
